---- MODULE Spec2Model ----
(***************************************************************************)
(* A model of boss-manage's CloudFormation configuration builder and       *)
(* stack provisioner (cloud_formation/configuration.py).                   *)
(*                                                                         *)
(* Python values are modelled as follows.  Strings are strings; None is    *)
(* the string None below, which no enumerated input equals; a dict is a    *)
(* function whose domain is the set of its keys; a list is a sequence.     *)
(* A value whose Python type the code inspects (type(x) == dict) carries   *)
(* its type as a tag.  An operation that can raise returns a record        *)
(* [self, exc]: the object as the raise left it and the message raised     *)
(* (None when the operation returned normally).                            *)
(***************************************************************************)
EXTENDS Integers, Sequences, FiniteSets, TLC

\* Bounds of the model.
MaxOps == 2
MaxPolls == 2
MaxArgs == 3

None == "None"
PyTrue == "True"
PyFalse == "False"

VARIABLES
    scenario,    \* os.environ["SCENARIO"], the process-wide selector
    self,        \* the CloudFormationConfiguration object
    pc,          \* "new", "build", "describe", "poll", "returned", "raised"
    last,        \* the last call made on the object and how it ended
    pre,         \* the object as it was before the last call
    nops,        \* number of builder calls made so far
    wait,        \* create's wait argument
    calls,       \* the calls create made on the provider session, in order
    response,    \* the last describe_stacks response
    rtn,         \* create's return value
    polls,       \* number of re-polls made by the wait loop
    locals       \* the local variables of the running workflow function

vars == <<scenario, self, pc, last, pre, nops, wait, calls, response, rtn, polls, locals>>

resources == self.resources
parameters == self.parameters
arguments == self.arguments

---------------------------------------------------------------------------
\* Python helpers.

EmptyDict == [k \in {} |-> None]

\* d[k] = v
Put(d, k, v) == [x \in DOMAIN d \cup {k} |-> IF x = k THEN v ELSE d[x]]

\* d.get(k, default)
Get(d, k, default) == IF k \in DOMAIN d THEN d[k] ELSE default

Ref(k) == [Ref |-> k]

\* [{ "Ref" : x } for x in seq]
Refs(seq) == [i \in 1..Len(seq) |-> Ref(seq[i])]

GetAtt(k, attr) == "Fn::GetAtt" :> <<k, attr>>

\* hostname.replace('.', '-') on the hostnames the model enumerates.
replace_dots(hostname) ==
    CASE hostname = "db.vpc.tld" -> "db-vpc-tld"
      [] hostname = "web.vpc.tld" -> "web-vpc-tld"
      [] hostname = "proofreader-db.vpc.tld" -> "proofreader-db-vpc-tld"
      [] OTHER -> hostname

\* domain.split(".") on the domains the model enumerates.
split(domain) ==
    CASE domain = "tld" -> <<"tld">>
      [] domain = "vpc.tld" -> <<"vpc", "tld">>
      [] domain = "sub.vpc.tld" -> <<"sub", "vpc", "tld">>
      [] domain = "x.vpc.tld" -> <<"x", "vpc", "tld">>
      [] domain = "a.sub.vpc.tld" -> <<"a", "sub", "vpc", "tld">>

\* domain.split(".", 1)[1]
split1_tail(domain) ==
    CASE domain = "vpc.tld" -> "tld"
      [] domain = "sub.vpc.tld" -> "vpc.tld"
      [] domain = "x.vpc.tld" -> "vpc.tld"
      [] domain = "a.sub.vpc.tld" -> "sub.vpc.tld"

\* hosts.lookup(domain) -> CIDR | None
hosts_lookup(domain) ==
    CASE domain = "vpc.tld" -> "10.0.0.0/16"
      [] domain = "sub.vpc.tld" -> "10.0.1.0/24"
      [] OTHER -> None

\* lib.template_argument(key, value)
template_argument(key, value) == [ParameterKey |-> key, ParameterValue |-> value]

---------------------------------------------------------------------------
\* get_scenario.  A value is [dict |-> FALSE, v |-> scalar] or
\* [dict |-> TRUE, d |-> function from scenario names to scalars].

Scalar(v) == [dict |-> FALSE, v |-> v]
ByScenario(d) == [dict |-> TRUE, d |-> d]

get_scenario(var, default, env) ==
    IF var.dict
    THEN LET var_ == Get(var.d, env, None)
         IN  IF var_ = None THEN Get(var.d, "default", default) ELSE var_
    ELSE var.v

bool_str(val) == IF val THEN "true" ELSE "false"

---------------------------------------------------------------------------
\* class Arg

Arg(key, parameter, argument) ==
    [key |-> key, parameter |-> parameter, argument |-> argument]

Arg_String(key, value, description) ==
    Arg(key, [Description |-> description, Type |-> "String"],
        template_argument(key, value))

Arg_Password(key, value, description) ==
    Arg(key, [Description |-> description, Type |-> "String", NoEcho |-> "true"],
        template_argument(key, value))

Arg_IP(key, value, description) ==
    Arg(key,
        [Description |-> description, Type |-> "String", MinLength |-> "7",
         MaxLength |-> "15", Default |-> "0.0.0.0",
         AllowedPattern |-> "(\\d{1,3})\\.(\\d{1,3})\\.(\\d{1,3})\\.(\\d{1,3})",
         ConstraintDescription |-> "must be a valid IP of the form x.x.x.x."],
        template_argument(key, value))

Arg_Port(key, value, description) ==
    Arg(key,
        [Description |-> description, Type |-> "Number", MinValue |-> "1",
         MaxValue |-> "65535"],
        template_argument(key, value))

\* Arg.CIDR that binds the parameter's Default when the value is not a CIDR.
Arg_CIDR_checked(key, value, description) ==
    Arg(key,
        [Description |-> description, Type |-> "String", MinLength |-> "9",
         MaxLength |-> "18", Default |-> "0.0.0.0/0",
         AllowedPattern |-> "(\\d{1,3})\\.(\\d{1,3})\\.(\\d{1,3})\\.(\\d{1,3})/(\\d{1,2})",
         ConstraintDescription |-> "must be a valid IP CIDR range of the form x.x.x.x/x."],
        template_argument(key, IF value \in {"10.0.0.0/16", "0.0.0.0/0"}
                               THEN value ELSE "0.0.0.0/0"))

Arg_CIDR(key, value, description) ==
    Arg(key,
        [Description |-> description, Type |-> "String", MinLength |-> "9",
         MaxLength |-> "18", Default |-> "0.0.0.0/0",
         AllowedPattern |-> "(\\d{1,3})\\.(\\d{1,3})\\.(\\d{1,3})\\.(\\d{1,3})/(\\d{1,2})",
         ConstraintDescription |-> "must be a valid IP CIDR range of the form x.x.x.x/x."],
        template_argument(key, value))

Arg_VPC(key, value, description) ==
    Arg(key, [Description |-> description, Type |-> "AWS::EC2::VPC::Id"],
        template_argument(key, value))

Arg_Subnet(key, value, description) ==
    Arg(key, [Description |-> description, Type |-> "AWS::EC2::Subnet::Id"],
        template_argument(key, value))

Arg_AMI(key, value, description) ==
    Arg(key, [Description |-> description, Type |-> "AWS::EC2::Image::Id"],
        template_argument(key, value))

Arg_Instance(key, value, description) ==
    Arg(key, [Description |-> description, Type |-> "AWS::EC2::Instance::Id"],
        template_argument(key, value))

Arg_KeyPair(key, value, hostname) ==
    Arg(key,
        [Description |-> "Name of an existing EC2 KeyPair to enable SSH access to '"
                         \o hostname \o "'",
         Type |-> "AWS::EC2::KeyPair::KeyName",
         ConstraintDescription |-> "must be the name of an existing EC2 KeyPair."],
        template_argument(key, value))

Arg_SecurityGroup(key, value, description) ==
    Arg(key, [Description |-> description, Type |-> "AWS::EC2::SecurityGroup::Id"],
        template_argument(key, value))

\* The dict literal repeats "Type"; Python keeps the last one.
Arg_RouteTable(key, value, description) ==
    Arg(key, [Description |-> description, Type |-> "String"],
        template_argument(key, value))

Arg_Certificate(key, value, description) ==
    Arg(key, [Description |-> description, Type |-> "AWS::ACM::Certificate::Id"],
        template_argument(key, value))

---------------------------------------------------------------------------
\* class CloudFormationConfiguration

\* What an operation hands back: the object, and the message of the exception
\* it raised (None when it returned normally).
Returned(s) == [self |-> s, exc |-> None]
Raised(s, msg) == [self |-> s, exc |-> msg]

\* An optional list argument: None, or a list.
NoList == [none |-> TRUE]
SomeList(l) == [none |-> FALSE, v |-> l]

\* The ami argument: an id, or a tuple (id, commit).
AmiId(id) == [tuple |-> FALSE, v |-> id]
AmiTuple(id, commit) == [tuple |-> TRUE, v |-> <<id, commit>>]

\* The user_data argument of add_ec2_instance: None, or the data (a string or
\* a Fn::Join document).
NoData == [none |-> TRUE]
SomeData(d) == [none |-> FALSE, v |-> d]

StackTag == [Key |-> "Stack", Value |-> Ref("AWS::StackName")]

\* self.resources[key] = resource
SetResource(s, key, resource) == [s EXCEPT !.resources = Put(@, key, resource)]

\* No workflow function is running.
NoLocals == [workflow |-> None]

\* The object before __init__ has run.
Unconstructed ==
    [resources |-> EmptyDict, parameters |-> EmptyDict, arguments |-> <<>>,
     region |-> None, vpc_domain |-> None, vpc_subnet |-> None,
     subnet_domain |-> None, subnet_subnet |-> None]

\* A constructor that takes a name of four labels for a subnet name.
__init___four_labels(domain, region) ==
    LET s0 == [Unconstructed EXCEPT !.region = region]
        dots == Len(split(domain))
    IN  IF dots = 2
        THEN Returned([s0 EXCEPT !.vpc_domain = domain,
                                 !.vpc_subnet = hosts_lookup(domain),
                                 !.subnet_domain = None,
                                 !.subnet_subnet = None])
        ELSE IF dots >= 3
        THEN Returned([s0 EXCEPT !.vpc_domain = split1_tail(domain),
                                 !.vpc_subnet = hosts_lookup(split1_tail(domain)),
                                 !.subnet_domain = domain,
                                 !.subnet_subnet = hosts_lookup(domain)])
        ELSE Raised(s0, "Not a valiid VPC or Subnet domain name")

__init__(domain, region) ==
    LET s0 == [Unconstructed EXCEPT !.region = region]
        dots == Len(split(domain))
    IN  IF dots = 2
        THEN Returned([s0 EXCEPT !.vpc_domain = domain,
                                 !.vpc_subnet = hosts_lookup(domain),
                                 !.subnet_domain = None,
                                 !.subnet_subnet = None])
        ELSE IF dots = 3
        THEN Returned([s0 EXCEPT !.vpc_domain = split1_tail(domain),
                                 !.vpc_subnet = hosts_lookup(split1_tail(domain)),
                                 !.subnet_domain = domain,
                                 !.subnet_subnet = hosts_lookup(domain)])
        ELSE Raised(s0, "Not a valiid VPC or Subnet domain name")

\* json.dumps(v, indent=4): the JSON document of v.
json_dumps(v) == [indent |-> 4, document |-> v]

\* os.path.join(folder, filename)
path_join(folder, filename) == folder \o "/" \o filename

_create_template(s, description) ==
    json_dumps([AWSTemplateFormatVersion |-> "2010-09-09",
                Description |-> description,
                Parameters |-> s.parameters,
                Resources |-> s.resources])

\* generate that refuses a configuration with an unbound argument, as create
\* does, and writes nothing.
generate_validating(s, name, folder) ==
    IF \E i \in 1..Len(s.arguments) : s.arguments[i].ParameterValue = None
    THEN [self |-> s, exc |-> "Could not determine argument", files |-> EmptyDict]
    ELSE [self |-> s, exc |-> None,
          files |-> Put(Put(EmptyDict, path_join(folder, name \o ".template"),
                            _create_template(s, "")),
                        path_join(folder, name \o ".arguments"),
                        json_dumps(s.arguments))]

\* The result carries the files generate has written.
generate(s, name, folder) ==
    [self |-> s, exc |-> None,
     files |-> Put(Put(EmptyDict, path_join(folder, name \o ".template"),
                       _create_template(s, "")),
                   path_join(folder, name \o ".arguments"),
                   json_dumps(s.arguments))]

\* add_arg that records the argument but declares no parameter.
add_arg_no_parameter(s, arg) ==
    IF arg.key \notin DOMAIN s.parameters
    THEN [s EXCEPT !.arguments = Append(@, arg.argument)]
    ELSE s

\* add_arg without its "not in" test: the key is bound again.
add_arg_unguarded(s, arg) ==
    [s EXCEPT !.parameters = Put(@, arg.key, arg.parameter),
              !.arguments = Append(@, arg.argument)]

\* add_arg that updates a key already present instead of keeping it.
add_arg_updating(s, arg) ==
    IF arg.key \notin DOMAIN s.parameters
    THEN [s EXCEPT !.parameters = Put(@, arg.key, arg.parameter),
                   !.arguments = Append(@, arg.argument)]
    ELSE [s EXCEPT !.parameters = Put(@, arg.key, arg.parameter),
                   !.arguments = [i \in 1..Len(@) |->
                                    IF @[i].ParameterKey = arg.key
                                    THEN arg.argument ELSE @[i]]]

add_arg(s, arg) ==
    IF arg.key \notin DOMAIN s.parameters
    THEN [s EXCEPT !.parameters = Put(@, arg.key, arg.parameter),
                   !.arguments = Append(@, arg.argument)]
    ELSE s

add_vpc(s, key) ==
    LET s1 == SetResource(s, key,
                [Type |-> "AWS::EC2::VPC",
                 Properties |->
                   [CidrBlock |-> Ref(key \o "Subnet"),
                    EnableDnsSupport |-> "true",
                    EnableDnsHostnames |-> "true",
                    Tags |-> <<StackTag,
                               [Key |-> "Name", Value |-> Ref(key \o "Domain")]>>]])
        s2 == SetResource(s1, "DNSZone",
                [Type |-> "AWS::Route53::HostedZone",
                 Properties |->
                   [HostedZoneConfig |->
                      [Comment |-> "Internal DNS Zone for the VPC of " \o s.vpc_domain],
                    Name |-> Ref(key \o "Domain"),
                    VPCs |-> <<[VPCId |-> Ref(key),
                                VPCRegion |-> Ref(key \o "Region")]>>]])
        s3 == add_arg(s2, Arg_CIDR(key \o "Subnet", s.vpc_subnet,
                                   "Subnet of the VPC '" \o key \o "'"))
        s4 == add_arg(s3, Arg_String(key \o "Domain", s.vpc_domain,
                                     "Domain of the VPC '" \o key \o "'"))
    IN  add_arg(s4, Arg_String(key \o "Region", s.region,
                               "Region of the VPC '" \o key \o "'"))

add_subnet(s, key, vpc, az) ==
    LET props == [VpcId |-> Ref(vpc),
                  CidrBlock |-> Ref(key \o "Subnet"),
                  Tags |-> <<StackTag,
                             [Key |-> "Name", Value |-> Ref(key \o "Domain")]>>]
        s1 == SetResource(s, key,
                [Type |-> "AWS::EC2::Subnet",
                 Properties |-> IF az # None
                                THEN Put(props, "AvailabilityZone", az)
                                ELSE props])
        s2 == add_arg(s1, Arg_CIDR(key \o "Subnet", s.subnet_subnet,
                                   "Subnet of the Subnet '" \o key \o "'"))
    IN  add_arg(s2, Arg_String(key \o "Domain", s.subnet_domain,
                               "Domain of the Subnet '" \o key \o "'"))

\* The attribute paths of rds and replication exchanged.
address_key_swapped(rds, cluster, replication, ec2) ==
    IF rds THEN "PrimaryEndPoint.Address"
    ELSE IF cluster THEN "ConfigurationEndpoint.Address"
    ELSE IF replication THEN "Endpoint.Address"
    ELSE IF ec2 THEN "PrivateDnsName"
    ELSE None

\* The attribute _add_record_cname reads for the role selected: the first of
\* rds, cluster, replication, ec2 that is set; None when none is.
address_key(rds, cluster, replication, ec2) ==
    IF rds THEN "Endpoint.Address"
    ELSE IF cluster THEN "ConfigurationEndpoint.Address"
    ELSE IF replication THEN "PrimaryEndPoint.Address"
    ELSE IF ec2 THEN "PrivateDnsName"
    ELSE None

\* A test that takes the zone for registered whatever resources holds.
zone_registered_always(s) == TRUE

\* if "DNSZone" in self.resources
zone_registered(s) == "DNSZone" \in DOMAIN s.resources

\* The cluster branch without its raise.
not_supported_never(rds, cluster, replication, ec2) == FALSE

\* Whether _add_record_cname raises "NotSupported currently".
not_supported(rds, cluster, replication, ec2) == ~rds /\ cluster

_add_record_cname(s, key, hostname, vpc, ttl, rds, cluster, replication, ec2) ==
    IF not_supported(rds, cluster, replication, ec2)
    THEN Raised(s, "NotSupported currently")
    ELSE
    LET record == [Type |-> "AWS::Route53::RecordSet",
                   Properties |->
                     [HostedZoneName |-> ("Fn::Join" :> <<"", <<Ref(vpc \o "Domain"), ".">> >>),
                      Name |-> hostname,
                      ResourceRecords |->
                        <<GetAtt(key, address_key(rds, cluster, replication, ec2))>>,
                      TTL |-> ttl,
                      Type |-> "CNAME"]]
        s1 == SetResource(s, key \o "Record",
                IF zone_registered(s)
                THEN Put(record, "DependsOn", "DNSZone")
                ELSE record)
    IN  Returned(add_arg(s1, Arg_String(vpc \o "Domain", s.vpc_domain,
                                        "Domain of the VPC '" \o vpc \o "'")))

\* An inline resolution that never looks at the "default" entry.
inline_scenario_no_default(var, default, env) ==
    IF var.dict
    THEN LET var__ == Get(var.d, env, None)
         IN  IF var__ = None THEN default ELSE var__
    ELSE var.v

\* The inline resolution of a scenario value that add_ec2_instance, add_rds_db,
\* add_redis_cluster and add_redis_replication spell out instead of calling
\* get_scenario.
inline_scenario(var, default, env) ==
    IF var.dict
    THEN LET var__ == Get(var.d, env, None)
         IN  IF var__ = None THEN Get(var.d, "default", default) ELSE var__
    ELSE var.v

add_ec2_instance(s, env, key, hostname, ami, keypair, subnet, type_, iface_check, public_ip, security_groups, user_data, meta_data, depends_on) ==
    LET type__ == inline_scenario(type_, "t2.micro", env)
        iface == [AssociatePublicIpAddress |-> bool_str(public_ip),
                  DeviceIndex |-> "0",
                  DeleteOnTermination |-> "true",
                  SubnetId |-> Ref(subnet)]
        iface1 == IF ~security_groups.none
                  THEN Put(iface, "GroupSet", Refs(security_groups.v))
                  ELSE iface
        tags == <<StackTag, [Key |-> "Name", Value |-> Ref(key \o "Hostname")]>>
        tags1 == IF ami.tuple /\ ami.v[2] # None
                 THEN Append(tags, [Key |-> "AMI Commit", Value |-> ami.v[2]])
                 ELSE tags
        ami_ == IF ami.tuple THEN ami.v[1] ELSE ami.v
        props == [ImageId |-> Ref(key \o "AMI"),
                  InstanceType |-> type__,
                  KeyName |-> Ref(key \o "Key"),
                  SourceDestCheck |-> bool_str(iface_check),
                  Tags |-> tags1,
                  NetworkInterfaces |-> <<iface1>>]
        props1 == IF ~user_data.none
                  THEN Put(props, "UserData", "Fn::Base64" :> user_data.v)
                  ELSE props
        r0 == [Type |-> "AWS::EC2::Instance", Properties |-> props1]
        r1 == IF depends_on # None THEN Put(r0, "DependsOn", depends_on) ELSE r0
        r2 == IF meta_data # None THEN Put(r1, "Metadata", meta_data) ELSE r1
        s1 == SetResource(s, key, r2)
        s2 == add_arg(s1, Arg_AMI(key \o "AMI", ami_,
                                  "AMI for the EC2 Instance '" \o key \o "'"))
        s3 == add_arg(s2, Arg_KeyPair(key \o "Key", keypair, hostname))
        s4 == add_arg(s3, Arg_String(key \o "Hostname", hostname,
                                     "Hostname of the EC2 Instance '" \o key \o "'"))
    IN  _add_record_cname(s4, key, hostname, "VPC", "300", FALSE, FALSE, FALSE, TRUE)

\* multi_az.get(scenario, "false") of add_rds_db
multi_az(env) ==
    Get([development |-> "false", production |-> "true"], env, "false")

add_rds_db(s, env, key, hostname, port, db_name, username, password, subnets, type_, storage, security_groups) ==
    LET type__ == inline_scenario(type_, "db.t2.micro", env)
        props == [Engine |-> "mysql",
                  LicenseModel |-> "general-public-license",
                  EngineVersion |-> "5.6.23",
                  DBInstanceClass |-> type__,
                  MultiAZ |-> multi_az(env),
                  StorageType |-> "standard",
                  AllocatedStorage |-> storage,
                  DBInstanceIdentifier |-> Ref(key \o "Hostname"),
                  MasterUsername |-> Ref(key \o "Username"),
                  MasterUserPassword |-> Ref(key \o "Password"),
                  DBSubnetGroupName |-> Ref(key \o "SubnetGroup"),
                  PubliclyAccessible |-> "false",
                  DBName |-> Ref(key \o "DBName"),
                  Port |-> Ref(key \o "Port"),
                  StorageEncrypted |-> "false"]
        s1 == SetResource(s, key,
                [Type |-> "AWS::RDS::DBInstance", Properties |-> props])
        s2 == SetResource(s1, key \o "SubnetGroup",
                [Type |-> "AWS::RDS::DBSubnetGroup",
                 Properties |->
                   [DBSubnetGroupDescription |-> Ref(key \o "Hostname"),
                    SubnetIds |-> Refs(subnets)]])
        \* self.resources[key] is read again here: key + "SubnetGroup" differs
        \* from key, so it is still the instance registered above.
        s3 == IF ~security_groups.none
              THEN SetResource(s2, key,
                     [s2.resources[key] EXCEPT !.Properties =
                        Put(@, "VPCSecurityGroups", Refs(security_groups.v))])
              ELSE s2
        s4 == add_arg(s3, Arg_String(key \o "Hostname", replace_dots(hostname),
                                     "Hostname of the RDS DB Instance '" \o key \o "'"))
        s5 == add_arg(s4, Arg_Port(key \o "Port", port,
                                   "DB Server Port for the RDS DB Instance '" \o key \o "'"))
        s6 == add_arg(s5, Arg_String(key \o "DBName", db_name,
                                     "Name of the intial database on the RDS DB Instance '"
                                     \o key \o "'"))
        s7 == add_arg(s6, Arg_String(key \o "Username", username,
                                     "Master Username for RDS DB Instance '" \o key \o "'"))
        s8 == add_arg(s7, Arg_Password(key \o "Password", password,
                                       "Master User Password for RDS DB Instance '"
                                       \o key \o "'"))
    IN  _add_record_cname(s8, key, hostname, "VPC", "300", TRUE, FALSE, FALSE, FALSE)

add_redis_cluster(s, env, key, hostname, subnets, security_groups, type_, port, version) ==
    LET type__ == inline_scenario(type_, "cache.t2.micro", env)
        s1 == SetResource(s, key,
                [Type |-> "AWS::ElastiCache::CacheCluster",
                 Properties |->
                   [CacheNodeType |-> type__,
                    CacheSubnetGroupName |-> Ref(key \o "SubnetGroup"),
                    Engine |-> "redis",
                    EngineVersion |-> version,
                    NumCacheNodes |-> "1",
                    Port |-> port,
                    Tags |-> <<StackTag,
                               [Key |-> "Name", Value |-> Ref(key \o "Hostname")]>>,
                    VpcSecurityGroupIds |-> Refs(security_groups)],
                 DependsOn |-> key \o "SubnetGroup"])
        s2 == SetResource(s1, key \o "SubnetGroup",
                [Type |-> "AWS::ElastiCache::SubnetGroup",
                 Properties |->
                   [Description |-> Ref(key \o "Hostname"),
                    SubnetIds |-> Refs(subnets)]])
        s3 == add_arg(s2, Arg_String(key \o "Hostname", replace_dots(hostname),
                                     "Hostname of the Redis Cluster '" \o key \o "'"))
    IN  _add_record_cname(s3, key, hostname, "VPC", "300", FALSE, TRUE, FALSE, FALSE)

\* int(clusters) on the replica counts the model enumerates.
int(v) ==
    CASE v = "1" -> 1
      [] v = "2" -> 2
      [] v = "3" -> 3

\* add_redis_replication that leaves out the subnet group.
add_redis_replication_no_group(s, env, key, hostname, subnets, security_groups, type_, port, version, clusters) ==
    LET type__ == inline_scenario(type_, "cache.m3.medium", env)
        clusters__ == int(inline_scenario(clusters, "1", env))
        s1 == SetResource(s, key,
                [Type |-> "AWS::ElastiCache::ReplicationGroup",
                 Properties |->
                   [AutomaticFailoverEnabled |-> bool_str(clusters__ > 1),
                    CacheNodeType |-> type__,
                    CacheSubnetGroupName |-> Ref(key \o "SubnetGroup"),
                    Engine |-> "redis",
                    EngineVersion |-> version,
                    NumCacheClusters |-> clusters__,
                    Port |-> port,
                    ReplicationGroupDescription |-> Ref(key \o "Hostname"),
                    SecurityGroupIds |-> Refs(security_groups)],
                 DependsOn |-> key \o "SubnetGroup"])
        s3 == add_arg(s1, Arg_String(key \o "Hostname", replace_dots(hostname),
                                     "Hostname of the Redis Cluster '" \o key \o "'"))
    IN  _add_record_cname(s3, key, hostname, "VPC", "300", FALSE, FALSE, TRUE, FALSE)

add_redis_replication(s, env, key, hostname, subnets, security_groups, type_, port, version, clusters) ==
    LET type__ == inline_scenario(type_, "cache.m3.medium", env)
        clusters__ == int(inline_scenario(clusters, "1", env))
        s1 == SetResource(s, key,
                [Type |-> "AWS::ElastiCache::ReplicationGroup",
                 Properties |->
                   [AutomaticFailoverEnabled |-> bool_str(clusters__ > 1),
                    CacheNodeType |-> type__,
                    CacheSubnetGroupName |-> Ref(key \o "SubnetGroup"),
                    Engine |-> "redis",
                    EngineVersion |-> version,
                    NumCacheClusters |-> clusters__,
                    Port |-> port,
                    ReplicationGroupDescription |-> Ref(key \o "Hostname"),
                    SecurityGroupIds |-> Refs(security_groups)],
                 DependsOn |-> key \o "SubnetGroup"])
        s2 == SetResource(s1, key \o "SubnetGroup",
                [Type |-> "AWS::ElastiCache::SubnetGroup",
                 Properties |->
                   [Description |-> Ref(key \o "Hostname"),
                    SubnetIds |-> Refs(subnets)]])
        s3 == add_arg(s2, Arg_String(key \o "Hostname", replace_dots(hostname),
                                     "Hostname of the Redis Cluster '" \o key \o "'"))
    IN  _add_record_cname(s3, key, hostname, "VPC", "300", FALSE, FALSE, TRUE, FALSE)

\* str(v) of an int
str(v) == ToString(v)

\* The body runs top to bottom: the group is registered, then the launch
\* configuration. "for sg in security_groups" raises TypeError on None while
\* the second dict is being built, after the first was stored.
add_autoscale_group(s, env, key, hostname, ami, keypair, subnets, type_, public_ip, security_groups, user_data, min, max, elb, depends_on) ==
    LET tags == << [Key |-> "Stack", Value |-> Ref("AWS::StackName"),
                    PropagateAtLaunch |-> "true"],
                   [Key |-> "Name", Value |-> Ref(key \o "Hostname"),
                    PropagateAtLaunch |-> "true"] >>
        group == [Type |-> "AWS::AutoScaling::AutoScalingGroup",
                  Properties |->
                    [HealthCheckType |-> IF elb = None THEN "EC2" ELSE "ELB",
                     HealthCheckGracePeriod |-> 30,
                     LaunchConfigurationName |-> Ref(key \o "Configuration"),
                     LoadBalancerNames |-> IF elb = None THEN <<>> ELSE <<Ref(elb)>>,
                     MaxSize |-> str(get_scenario(max, 1, env)),
                     MinSize |-> str(get_scenario(min, 1, env)),
                     Tags |-> tags,
                     VPCZoneIdentifier |-> Refs(subnets)]]
        s1 == SetResource(s, key, group)
        s2 == IF depends_on # None
              THEN SetResource(s1, key, Put(s1.resources[key], "DependsOn", depends_on))
              ELSE s1
    IN  IF security_groups.none
        THEN Raised(s2, "TypeError: 'NoneType' object is not iterable")
        ELSE
    LET s3 == SetResource(s2, key \o "Configuration",
                [Type |-> "AWS::AutoScaling::LaunchConfiguration",
                 Properties |->
                   [AssociatePublicIpAddress |-> public_ip,
                    ImageId |-> Ref(key \o "AMI"),
                    InstanceMonitoring |-> FALSE,
                    InstanceType |-> get_scenario(type_, "t2.micro", env),
                    KeyName |-> Ref(key \o "Key"),
                    SecurityGroups |-> Refs(security_groups.v),
                    UserData |-> IF user_data = None
                                 THEN "" ELSE "Fn::Base64" :> user_data]])
        s4 == IF ami.tuple /\ ami.v[2] # None
              THEN SetResource(s3, key,
                     [s3.resources[key] EXCEPT !.Properties.Tags =
                        Append(@, [Key |-> "AMI Commit", Value |-> ami.v[2],
                                   PropagateAtLaunch |-> "true"])])
              ELSE s3
        ami_ == IF ami.tuple THEN ami.v[1] ELSE ami.v
        s5 == add_arg(s4, Arg_AMI(key \o "AMI", ami_,
                                  "AMI for the EC2 Instance '" \o key \o "'"))
        s6 == add_arg(s5, Arg_KeyPair(key \o "Key", keypair, hostname))
        s7 == add_arg(s6, Arg_String(key \o "Hostname", hostname,
                                     "Hostname of the EC2 Instance '" \o key \o "'"))
    IN  Returned(s7)

\* { "Ref": "topicMicronList" } guarded by a condition on the source owner or
\* on the protocol: one statement of the topic policy.
PolicyStatement(sid, action, condition) ==
    [Sid |-> sid, Effect |-> "Allow", Principal |-> [AWS |-> "*"],
     Action |-> action, Resource |-> Ref("topicMicronList"),
     Condition |-> condition]

\* The topic and its policy are stored as two sub-entries of one value under
\* key; that value itself has no Type and no Properties.
add_sns_topic(s, key, topic_name, depends_on) ==
    LET topic == [Type |-> "AWS::SNS::Topic",
                  Properties |->
                    [DisplayName |-> "MicronList",
                     Subscription |->
                       << [Endpoint |-> "13012544552", Protocol |-> "sms"],
                          [Endpoint |-> "sandy.hider@jhuapl.edu", Protocol |-> "email"] >>]]
        statements ==
            << PolicyStatement("__default_statement_ID",
                   <<"SNS:ListSubscriptionsByTopic", "SNS:Subscribe", "SNS:DeleteTopic",
                     "SNS:GetTopicAttributes", "SNS:Publish", "SNS:RemovePermission",
                     "SNS:AddPermission", "SNS:Receive", "SNS:SetTopicAttributes">>,
                   [StringEquals |-> "AWS:SourceOwner" :> "256215146792"]),
               [Sid |-> "__console_pub_0", Effect |-> "Allow",
                Principal |-> [AWS |-> "*"], Action |-> "SNS:Publish",
                Resource |-> Ref("topicMicronList")],
               PolicyStatement("__console_sub_0", <<"SNS:Subscribe", "SNS:Receive">>,
                   [StringEquals |->
                      "SNS:Protocol" :> <<"application", "sms", "email">>]) >>
        policy == [Type |-> "AWS::SNS::TopicPolicy",
                   Properties |->
                     [Topics |-> <<Ref("topicMicronList")>>,
                      PolicyDocument |->
                        [Version |-> "2008-10-17", Id |-> "__default_policy_ID",
                         Statement |-> statements]]]
        s1 == SetResource(s, key,
                [topicMicronList |-> topic, snspolicyMicronList |-> policy])
    IN  IF depends_on # None
        THEN Returned(SetResource(s1, key, Put(s1.resources[key], "DependsOn", depends_on)))
        ELSE Returned(s1)

\* "/".join(map(lambda x: x[1] + "-" + x[2], rules)) of add_security_group
RECURSIVE ports(_)
ports(rules) ==
    IF rules = <<>>
    THEN ""
    ELSE LET x == rules[1]
         IN  x[2] \o "-" \o x[3]
             \o (IF Len(rules) > 1 THEN "/" \o ports(Tail(rules)) ELSE "")

add_security_group(s, key, name, rules, vpc) ==
    LET ingress == [i \in 1..Len(rules) |->
                      [IpProtocol |-> rules[i][1], FromPort |-> rules[i][2],
                       ToPort |-> rules[i][3], CidrIp |-> rules[i][4]]]
        s1 == SetResource(s, key,
                [Type |-> "AWS::EC2::SecurityGroup",
                 Properties |->
                   [VpcId |-> Ref(vpc),
                    GroupDescription |-> "Enable access to ports " \o ports(rules),
                    SecurityGroupIngress |-> ingress,
                    Tags |-> <<StackTag,
                               [Key |-> "Name",
                                Value |-> "Fn::Join" :>
                                    <<".", <<name, Ref(vpc \o "Domain")>> >>]>>]])
    IN  add_arg(s1, Arg_String(vpc \o "Domain", s.vpc_domain,
                               "Domain of the VPC '" \o vpc \o "'"))

\* attributes and key_schema are given as the sequence of (name, value) pairs
\* the dict iterates over.
add_dynamo_table(s, key, name, attributes, key_schema, throughput) ==
    LET attr_defs == [i \in 1..Len(attributes) |->
                        [AttributeName |-> attributes[i][1],
                         AttributeType |-> attributes[i][2]]]
        key_schema_ == [i \in 1..Len(key_schema) |->
                          [AttributeName |-> key_schema[i][1],
                           KeyType |-> key_schema[i][2]]]
        s1 == SetResource(s, key,
                [Type |-> "AWS::DynamoDB::Table",
                 Properties |->
                   [TableName |-> Ref(key \o "TableName"),
                    AttributeDefinitions |-> attr_defs,
                    KeySchema |-> key_schema_,
                    ProvisionedThroughput |->
                      [ReadCapacityUnits |-> int(throughput[1]),
                       WriteCapacityUnits |-> int(throughput[2])]]])
    IN  add_arg(s1, Arg_String(key \o "TableName", name,
                               "Name of the DynamoDB table created by instance '"
                               \o key \o "'"))

add_vpc_peering(s, key, vpc, peer_vpc) ==
    LET s1 == SetResource(s, key,
                [Type |-> "AWS::EC2::VPCPeeringConnection",
                 Properties |->
                   [VpcId |-> Ref(key \o "VPC"),
                    PeerVpcId |-> Ref(key \o "PeerVPC"),
                    Tags |-> <<StackTag>>]])
        s2 == add_arg(s1, Arg_VPC(key \o "VPC", vpc,
                                  "Originating VPC for the peering connection"))
    IN  add_arg(s2, Arg_VPC(key \o "PeerVPC", peer_vpc,
                            "Destination VPC for the peering connection"))

\* A count that only tells none from some: several targets pass for one.
targets_given_any(gateway, peer, instance) ==
    IF gateway = None /\ peer = None /\ instance = None THEN 0 ELSE 1

\* len(checks) - checks.count(None) of add_route_table_route
targets_given(gateway, peer, instance) ==
    Cardinality({i \in 1..3 : <<gateway, peer, instance>>[i] # None})

add_route_table_route(s, key, route_table, cidr, gateway, peer, instance, depends_on) ==
    LET props == [RouteTableId |-> Ref(route_table),
                  DestinationCidrBlock |-> Ref(key \o "Cidr")]
        s1 == SetResource(s, key, [Type |-> "AWS::EC2::Route", Properties |-> props])
    IN  IF targets_given(gateway, peer, instance) # 1
        THEN Raised(s1, "Required to specify one and only one of the following arguments: gateway|peer|instance")
        ELSE
        LET p1 == IF gateway # None THEN Put(props, "GatewayId", Ref(gateway))
                  ELSE props
            p2 == IF peer # None THEN Put(p1, "VpcPeeringConnectionId", Ref(peer))
                  ELSE p1
            p3 == IF instance # None THEN Put(p2, "InstanceId", Ref(instance))
                  ELSE p2
            r0 == [Type |-> "AWS::EC2::Route", Properties |-> p3]
            r1 == IF depends_on # None THEN Put(r0, "DependsOn", depends_on) ELSE r0
            s2 == SetResource(s1, key, r1)
        IN  Returned(add_arg(s2, Arg_CIDR(key \o "Cidr", cidr,
                                 "Destination CIDR Block for Route '" \o key \o "'")))

---------------------------------------------------------------------------
\* The inputs the builder is driven with.

Scenarios == {"development", "production"}
Domains == {"tld", "vpc.tld", "sub.vpc.tld", "a.sub.vpc.tld"}
Keys == {"DB", "Web"}
Hostname(key) == IF key = "DB" THEN "db.vpc.tld" ELSE "web.vpc.tld"
ArgKeys == {"VPCDomain", "DBHostname"}
ArgValues == {None, "v"}
InstanceTypes == {Scalar("t2.small"), ByScenario([production |-> "m4.large"])}
ClusterCounts == {Scalar("1"), ByScenario([production |-> "3"])}
Amis == {AmiId(None), AmiTuple("ami-1", "c0ffee")}
OptLists == {NoList, SomeList(<<"SG">>)}
OptKeys == {None, "Target"}

\* The Arg constructors add_arg is called with.
MakeArg(kind, key, value) ==
    CASE kind = "String" -> Arg_String(key, value, "")
      [] kind = "CIDR" -> Arg_CIDR(key, value, "")

---------------------------------------------------------------------------
\* The builder: __init__, then a sequence of builder calls.

Init ==
    /\ scenario \in Scenarios
    /\ self = Unconstructed
    /\ pc = "new"
    /\ last = [op |-> "none", args |-> EmptyDict, exc |-> None]
    /\ pre = Unconstructed
    /\ nops = 0
    /\ wait = FALSE
    /\ calls = <<>>
    /\ response = [Stacks |-> <<>>]
    /\ rtn = None
    /\ polls = 0
    /\ locals = NoLocals

Call_init ==
    /\ pc = "new"
    /\ \E domain \in Domains :
         LET res == __init__(domain, "us-east-1")
         IN  /\ self' = res.self
             /\ pc' = IF res.exc = None THEN "build" ELSE "raised"
             /\ last' = [op |-> "__init__", args |-> [domain |-> domain],
                         exc |-> res.exc]
    /\ pre' = self
    /\ UNCHANGED <<locals, scenario, nops, wait, calls, response, rtn, polls>>

\* One builder call: the object becomes what the call left, whether it
\* returned or raised; the caller may go on with the object either way.
Build(op, args, res) ==
    /\ pc = "build"
    /\ nops < MaxOps
    /\ self' = res.self
    /\ pre' = self
    /\ last' = [op |-> op, args |-> args, exc |-> res.exc]
    /\ nops' = nops + 1
    /\ UNCHANGED <<locals, scenario, pc, wait, calls, response, rtn, polls>>

Call_add_arg ==
    \E kind \in {"String", "CIDR"}, key \in ArgKeys, value \in ArgValues :
        Build("add_arg", [key |-> key, value |-> value, kind |-> kind],
              Returned(add_arg(self, MakeArg(kind, key, value))))

Call_add_vpc ==
    Build("add_vpc", [key |-> "VPC"], Returned(add_vpc(self, "VPC")))

Call_add_subnet ==
    \E az \in {None, "us-east-1b"} :
        Build("add_subnet", [key |-> "Subnet", az |-> az],
              Returned(add_subnet(self, "Subnet", "VPC", az)))

Call_add_ec2_instance ==
    \E key \in Keys, ami \in Amis, type_ \in InstanceTypes,
       depends_on \in {None, "DB"} :
        Build("add_ec2_instance",
              [key |-> key, type_ |-> type_, depends_on |-> depends_on],
              add_ec2_instance(self, scenario, key, Hostname(key), ami, "keypair",
                               "Subnet", type_, TRUE, FALSE, SomeList(<<"SG">>),
                               NoData, None, depends_on))

Call_add_rds_db ==
    \E key \in Keys, type_ \in InstanceTypes, security_groups \in OptLists :
        Build("add_rds_db", [key |-> key, type_ |-> type_],
              add_rds_db(self, scenario, key, Hostname(key), "3306", "boss",
                         "testuser", "secret", <<"ASubnet", "BSubnet">>, type_,
                         "5", security_groups))

Call_add_redis_cluster ==
    \E key \in Keys :
        Build("add_redis_cluster", [key |-> key],
              add_redis_cluster(self, scenario, key, Hostname(key), <<"Subnet">>,
                                <<"SG">>, Scalar("cache.t2.micro"), "6379",
                                "2.8.24"))

Call_add_redis_replication ==
    \E key \in Keys, clusters \in ClusterCounts :
        Build("add_redis_replication", [key |-> key, clusters |-> clusters],
              add_redis_replication(self, scenario, key, Hostname(key),
                                    <<"Subnet">>, <<"SG">>,
                                    Scalar("cache.m3.medium"), "6379", "2.8.24",
                                    clusters))

Call_add_route_table_route ==
    \E key \in {"Route", "DB"}, gateway \in OptKeys, peer \in OptKeys,
       instance \in OptKeys :
        Build("add_route_table_route",
              [key |-> key, gateway |-> gateway, peer |-> peer,
               instance |-> instance],
              add_route_table_route(self, key, "RouteTable", "0.0.0.0/0", gateway,
                                    peer, instance, None))

Call_add_record_cname ==
    \E rds \in BOOLEAN, cluster \in BOOLEAN, replication \in BOOLEAN,
       ec2 \in BOOLEAN :
        Build("_add_record_cname",
              [key |-> "DB", rds |-> rds, cluster |-> cluster,
               replication |-> replication, ec2 |-> ec2],
              _add_record_cname(self, "DB", Hostname("DB"), "VPC", "300", rds,
                               cluster, replication, ec2))

Call_generate ==
    /\ pc = "build"
    /\ nops < MaxOps
    /\ LET res == generate(self, "production-vpc-tld", "templates")
       IN  /\ self' = res.self
           /\ last' = [op |-> "generate",
                       args |-> [name |-> "production-vpc-tld", folder |-> "templates"],
                       exc |-> res.exc, files |-> res.files]
    /\ pre' = self
    /\ nops' = nops + 1
    /\ UNCHANGED <<locals, scenario, pc, wait, calls, response, rtn, polls>>

Call_add_autoscale_group ==
    \E key \in {"Web"}, security_groups \in OptLists, depends_on \in OptKeys :
        Build("add_autoscale_group",
              [key |-> key, security_groups |-> security_groups,
               depends_on |-> depends_on],
              add_autoscale_group(self, scenario, key, Hostname(key),
                                  AmiTuple("ami-1", "c0ffee"), "keypair",
                                  <<"Subnet">>, Scalar("t2.micro"), FALSE,
                                  security_groups, None, Scalar(1), Scalar(1),
                                  None, depends_on))

Call_add_sns_topic ==
    \E depends_on \in OptKeys :
        Build("add_sns_topic", [key |-> "Topic", depends_on |-> depends_on],
              add_sns_topic(self, "Topic", "MicronList", depends_on))

\* The rules the deployment scripts open to the internet.
InternetRules ==
    << <<"tcp", "22", "22", "0.0.0.0/0">>,
       <<"tcp", "80", "80", "0.0.0.0/0">>,
       <<"tcp", "443", "443", "0.0.0.0/0">> >>

Call_add_security_group ==
    Build("add_security_group", [key |-> "SG", vpc |-> "VPC"],
          Returned(add_security_group(self, "SG", "internet", InternetRules, "VPC")))

Call_add_dynamo_table ==
    Build("add_dynamo_table", [key |-> "Table"],
          Returned(add_dynamo_table(self, "Table", "table.vpc.tld",
                                    << <<"id", "S">> >>, << <<"id", "HASH">> >>,
                                    <<"2", "1">>)))

Call_add_vpc_peering ==
    Build("add_vpc_peering", [key |-> "Peer"],
          Returned(add_vpc_peering(self, "Peer", "vpc-1", "vpc-2")))

Next ==
    \/ Call_init
    \/ Call_add_arg
    \/ Call_add_vpc
    \/ Call_add_subnet
    \/ Call_add_ec2_instance
    \/ Call_add_rds_db
    \/ Call_add_redis_cluster
    \/ Call_add_redis_replication
    \/ Call_add_route_table_route
    \/ Call_add_record_cname
    \/ Call_generate
    \/ Call_add_autoscale_group
    \/ Call_add_sns_topic
    \/ Call_add_security_group
    \/ Call_add_dynamo_table
    \/ Call_add_vpc_peering

Spec == Init /\ [][Next]_vars

---------------------------------------------------------------------------
\* The provisioner: create on a configuration whose arguments were added by
\* add_arg, bound to a value or to None.

ParamKey(i) == "P" \o ToString(i)

\* The configuration after add_arg(Arg.String(ParamKey(i), values[i])), i = 1..n.
RECURSIVE WithArgs(_, _)
WithArgs(values, n) ==
    IF n = 0
    THEN __init__("vpc.tld", "us-east-1").self
    ELSE add_arg(WithArgs(values, n - 1), Arg_String(ParamKey(n), values[n], ""))

ArgVectors == UNION {[1..n -> ArgValues] : n \in 0..MaxArgs}

Statuses ==
    {"CREATE_IN_PROGRESS", "CREATE_COMPLETE", "CREATE_FAILED", "ROLLBACK_COMPLETE"}

\* What describe_stacks may answer: no stack, or the stack in some status.
Responses ==
    {[Stacks |-> <<>>]} \cup {[Stacks |-> <<[StackStatus |-> st]>>] : st \in Statuses}

\* get_status = lambda r: r['Stacks'][0]['StackStatus']
get_status(r) == r.Stacks[1].StackStatus

\* A loop body that submits the stack again before it asks for the status.
poll_calls_resubmit == <<"sleep", "create_stack", "describe_stacks">>

\* The calls of one turn of the wait loop: time.sleep(5), then describe_stacks.
poll_calls == <<"sleep", "describe_stacks">>

\* A loop that is left at once, whatever the status.
in_progress_never(r) == FALSE

\* The condition of the wait loop: get_status(response) == 'CREATE_IN_PROGRESS'
in_progress(r) == get_status(r) = "CREATE_IN_PROGRESS"

\* A check that looks at the first argument only.
null_check_first_only(args) ==
    IF Len(args) > 0 /\ args[1].ParameterValue = None
    THEN "Could not determine argument '" \o args[1].ParameterKey \o "'"
    ELSE None

\* The for loop that opens create: the message raised for the first argument
\* bound to None, None when every argument is bound.
null_check(args) ==
    LET nulls == {i \in 1..Len(args) : args[i].ParameterValue = None}
    IN  IF nulls = {}
        THEN None
        ELSE LET first == CHOOSE i \in nulls : \A j \in nulls : i <= j
             IN  "Could not determine argument '" \o args[first].ParameterKey \o "'"

\* create that polls whatever wait is.
polls_status_always(w) == TRUE

\* "if wait:" of create
polls_status(w) == w

\* A result that treats only CREATE_FAILED as a failure.
create_result_lenient(status) == IF status = "CREATE_FAILED" THEN PyFalse ELSE PyTrue

\* The result create returns once the status has left CREATE_IN_PROGRESS.
create_result(status) == IF status = "CREATE_COMPLETE" THEN PyTrue ELSE PyFalse

InitCreate ==
    /\ scenario \in Scenarios
    /\ \E values \in ArgVectors : self = WithArgs(values, Len(values))
    /\ pc = "build"
    /\ last = [op |-> "none", args |-> EmptyDict, exc |-> None]
    /\ pre = Unconstructed
    /\ nops = 0
    /\ wait = FALSE
    /\ calls = <<>>
    /\ response = [Stacks |-> <<>>]
    /\ rtn = None
    /\ polls = 0
    /\ locals = NoLocals

\* create up to the return of create_stack.
Call_create ==
    /\ pc = "build"
    /\ \E w \in BOOLEAN, provider_ok \in BOOLEAN :
         /\ wait' = w
         /\ IF null_check(arguments) # None
            THEN /\ pc' = "raised"
                 /\ last' = [op |-> "create", args |-> [wait |-> w],
                             exc |-> null_check(arguments)]
                 /\ UNCHANGED <<calls, rtn>>
            ELSE /\ calls' = Append(calls, "create_stack")
                 /\ IF ~provider_ok
                    THEN /\ pc' = "raised"
                         /\ last' = [op |-> "create", args |-> [wait |-> w],
                                     exc |-> "ClientError"]
                         /\ UNCHANGED rtn
                    ELSE /\ last' = [op |-> "create", args |-> [wait |-> w],
                                     exc |-> None]
                         /\ rtn' = None
                         /\ pc' = IF polls_status(w) THEN "describe" ELSE "returned"
    /\ pre' = self
    /\ UNCHANGED <<locals, scenario, self, nops, response, polls>>

\* The first describe_stacks of a waiting create.
Describe_first ==
    /\ pc = "describe"
    /\ calls' = Append(calls, "describe_stacks")
    /\ \/ /\ pc' = "raised"
          /\ last' = [last EXCEPT !.exc = "ClientError"]
          /\ UNCHANGED response
       \/ \E r \in Responses :
            /\ response' = r
            /\ pc' = IF Len(r.Stacks) = 0 THEN "returned" ELSE "poll"
            /\ UNCHANGED last
    /\ UNCHANGED <<locals, scenario, self, pre, nops, wait, rtn, polls>>

\* The while loop finds the stack still in progress: sleep, describe again.
Poll_again ==
    /\ pc = "poll"
    /\ Len(response.Stacks) > 0
    /\ in_progress(response)
    /\ polls < MaxPolls
    /\ polls' = polls + 1
    /\ calls' = calls \o poll_calls
    /\ \/ /\ pc' = "raised"
          /\ last' = [last EXCEPT !.exc = "ClientError"]
          /\ UNCHANGED response
       \/ \E r \in Responses :
            /\ response' = r
            /\ UNCHANGED <<pc, last>>
    /\ UNCHANGED <<locals, scenario, self, pre, nops, wait, rtn>>

\* get_status on a response without stacks: r['Stacks'][0] raises IndexError.
Poll_no_stack ==
    /\ pc = "poll"
    /\ Len(response.Stacks) = 0
    /\ pc' = "raised"
    /\ last' = [last EXCEPT !.exc = "IndexError"]
    /\ UNCHANGED <<locals, scenario, self, pre, nops, wait, calls, response, rtn, polls>>

\* The status has left CREATE_IN_PROGRESS: create returns True or False.
Poll_done ==
    /\ pc = "poll"
    /\ Len(response.Stacks) > 0
    /\ ~in_progress(response)
    /\ rtn' = create_result(get_status(response))
    /\ pc' = "returned"
    /\ UNCHANGED <<locals, scenario, self, pre, nops, wait, calls, response, last, polls>>

NextCreate ==
    \/ Call_create
    \/ Describe_first
    \/ Poll_again
    \/ Poll_no_stack
    \/ Poll_done

SpecCreate == InitCreate /\ [][NextCreate]_vars

\* create runs synchronously in the caller's thread: once it has been entered,
\* the statement it stands at is executed.
FairSpecCreate ==
    SpecCreate /\ WF_vars(Describe_first \/ Poll_again \/ Poll_no_stack \/ Poll_done)

---------------------------------------------------------------------------
\* get_scenario applied to scalars and to scenario mappings.

ScenarioValues == {None, "small", "large"}

\* Every mapping over the keys development, production and default.
ScenarioDicts ==
    UNION {[keys -> ScenarioValues] :
             keys \in SUBSET {"development", "production", "default"}}

ScenarioVars ==
    {Scalar(v) : v \in ScenarioValues} \cup {ByScenario(d) : d \in ScenarioDicts}

InitScenario ==
    /\ scenario \in Scenarios \cup {"staging"}
    /\ self = Unconstructed
    /\ pc = "scenario"
    /\ last = [op |-> "none", args |-> EmptyDict, exc |-> None]
    /\ pre = Unconstructed
    /\ nops = 0
    /\ wait = FALSE
    /\ calls = <<>>
    /\ response = [Stacks |-> <<>>]
    /\ rtn = None
    /\ polls = 0
    /\ locals = NoLocals

Call_get_scenario ==
    /\ pc = "scenario"
    /\ \E var \in ScenarioVars, default \in {None, "fallback"} :
         last' = [op |-> "get_scenario", args |-> [var |-> var, default |-> default],
                  exc |-> None, ret |-> get_scenario(var, default, scenario)]
    /\ UNCHANGED <<locals, scenario, self, pc, pre, nops, wait, calls, response, rtn, polls>>

NextScenario == Call_get_scenario

SpecScenario == InitScenario /\ [][NextScenario]_vars

---------------------------------------------------------------------------
\* The live-deployment workflows: create of configs/production.py and of
\* configs/proofreader.py.

Workflows == {"production", "proofreader"}

VAULT_DJANGO == "secret/proofreader/django"
VAULT_DJANGO_DB == "secret/proofreader/django/db"

\* One call_vault call: the command and the secret it works on.
VaultCall(command, secret) == [command |-> command, secret |-> secret]

\* The call_vault calls a workflow makes before its try statement, in order.
IssuingCalls(w) ==
    IF w = "production"
    THEN << VaultCall("vault-provision", "endpoint_token"),
            VaultCall("vault-django", "django") >>
    ELSE << VaultCall("vault-provision", "proofreader_token"),
            VaultCall("vault-write", VAULT_DJANGO),
            VaultCall("vault-write", VAULT_DJANGO_DB) >>

\* The try statements inside the except clause, in order, each with the
\* call_vault calls of its body.
ReversalBlocks(w) ==
    IF w = "production"
    THEN << << VaultCall("vault-django", "django") >>,
            << VaultCall("vault-revoke", "endpoint_token") >> >>
    ELSE << << VaultCall("vault-delete", VAULT_DJANGO),
               VaultCall("vault-delete", VAULT_DJANGO_DB) >>,
            << VaultCall("vault-revoke", "proofreader_token") >> >>

\* The exception of a call_vault call that fails.
VaultError(c) == "VaultError: " \o c.command \o " " \o c.secret

\* The exceptions create_config raises.
ConfigErrors == {"Invalid VPC domain name", "VPC does not exists, exiting..."}

\* The exceptions config.create raises.
CreateErrors == {"Could not determine argument", "ClientError", "IndexError"}

\* The values config.create returns (wait is left at its default, True).
CreateReturns == {PyTrue, PyFalse, None}

\* A test that takes only False for a failure.
not_success_false_only(success) == success = PyFalse

\* "if not success: raise Exception("Create Failed")"
not_success(success) == success # PyTrue

WorkflowOp == [op |-> locals.workflow \o ".create", args |-> EmptyDict, exc |-> None]

InitWorkflow ==
    /\ scenario \in Scenarios
    /\ self = Unconstructed
    /\ pc = "issue"
    /\ last = [op |-> "none", args |-> EmptyDict, exc |-> None]
    /\ pre = Unconstructed
    /\ nops = 0
    /\ wait = TRUE
    /\ calls = <<>>
    /\ response = [Stacks |-> <<>>]
    /\ rtn = None
    /\ polls = 0
    /\ \E w \in Workflows :
         locals = [workflow |-> w, step |-> 1, block |-> 1, issued |-> <<>>,
                   original |-> None, attempted |-> {}, swallowed |-> {}]

\* A call_vault call before the try statement: the secret is issued, or the
\* call raises and the exception leaves the workflow.
Issue_secret ==
    /\ pc = "issue"
    /\ LET c == IssuingCalls(locals.workflow)[locals.step]
       IN  /\ calls' = Append(calls, c)
           /\ \/ /\ locals' = [locals EXCEPT !.issued = Append(@, c.secret),
                                             !.step = IF @ = Len(IssuingCalls(locals.workflow))
                                                      THEN 1 ELSE @ + 1]
                 /\ pc' = IF locals.step = Len(IssuingCalls(locals.workflow))
                          THEN "try" ELSE "issue"
                 /\ last' = WorkflowOp
              \/ /\ pc' = "raised"
                 /\ last' = [WorkflowOp EXCEPT !.exc = VaultError(c)]
                 /\ UNCHANGED locals
    /\ UNCHANGED <<scenario, self, pre, nops, wait, response, rtn, polls>>

\* The body of the try statement: create_config, config.create and the test
\* of its result. An exception enters the except clause.
Submit ==
    /\ pc = "try"
    /\ \/ \E e \in ConfigErrors :
            /\ locals' = [locals EXCEPT !.original = e]
            /\ pc' = "except"
            /\ UNCHANGED <<calls, rtn>>
       \/ \E e \in CreateErrors :
            /\ calls' = Append(calls, VaultCall("config.create", None))
            /\ locals' = [locals EXCEPT !.original = e]
            /\ pc' = "except"
            /\ UNCHANGED rtn
       \/ \E success \in CreateReturns :
            /\ calls' = Append(calls, VaultCall("config.create", None))
            /\ rtn' = success
            /\ IF not_success(success)
               THEN /\ locals' = [locals EXCEPT !.original = "Create Failed"]
                    /\ pc' = "except"
               ELSE /\ pc' = "returned"
                    /\ UNCHANGED locals
    /\ UNCHANGED <<scenario, self, last, pre, nops, wait, response, polls>>

\* One call_vault call of the except clause. When it raises, the except of
\* its own try statement prints a message and the clause goes on after that
\* try statement.
Reverse_secret ==
    /\ pc = "except"
    /\ LET blocks == ReversalBlocks(locals.workflow)
           c == blocks[locals.block][locals.step]
           next_block == [locals EXCEPT !.block = @ + 1, !.step = 1,
                                        !.attempted = @ \cup {c}]
       IN  /\ calls' = Append(calls, c)
           /\ \/ /\ locals.step < Len(blocks[locals.block])
                 /\ locals' = [locals EXCEPT !.step = @ + 1,
                                             !.attempted = @ \cup {c}]
                 /\ UNCHANGED pc
              \/ /\ locals.step = Len(blocks[locals.block])
                 /\ locals' = next_block
                 /\ pc' = IF locals.block = Len(blocks) THEN "reraise" ELSE "except"
              \/ /\ locals' = [next_block EXCEPT !.swallowed = @ \cup {VaultError(c)}]
                 /\ pc' = IF locals.block = Len(blocks) THEN "reraise" ELSE "except"
    /\ UNCHANGED <<scenario, self, last, pre, nops, wait, response, rtn, polls>>

\* The bare raise that ends the except clause: the exception being handled
\* leaves the workflow.
Reraise ==
    /\ pc = "reraise"
    /\ pc' = "raised"
    /\ last' = [WorkflowOp EXCEPT !.exc = locals.original]
    /\ UNCHANGED <<locals, scenario, self, pre, nops, wait, calls, response, rtn, polls>>

NextWorkflow ==
    \/ Issue_secret
    \/ Submit
    \/ Reverse_secret
    \/ Reraise

SpecWorkflow == InitWorkflow /\ [][NextWorkflow]_vars

---------------------------------------------------------------------------
\* The Arg constructors applied to well-formed, malformed and missing values.

ArgConstructors ==
    {"String", "Password", "IP", "Port", "CIDR", "VPC", "Subnet", "AMI",
     "Instance", "KeyPair", "SecurityGroup", "RouteTable", "Certificate"}

\* Values handed to a constructor: None, and strings that do or do not meet
\* the format of one or another constructor.
ArgInputs == {None, "10.0.0.0/16", "10.0.0/33", "10.0.0.1", "vpc-1a2b3c4d", "70000", ""}

\* Arg.<name>(key, value, ...): the static method of that name.
Arg_call(name, key, value) ==
    CASE name = "String" -> Arg_String(key, value, "description")
      [] name = "Password" -> Arg_Password(key, value, "description")
      [] name = "IP" -> Arg_IP(key, value, "description")
      [] name = "Port" -> Arg_Port(key, value, "description")
      [] name = "CIDR" -> Arg_CIDR(key, value, "description")
      [] name = "VPC" -> Arg_VPC(key, value, "description")
      [] name = "Subnet" -> Arg_Subnet(key, value, "description")
      [] name = "AMI" -> Arg_AMI(key, value, "description")
      [] name = "Instance" -> Arg_Instance(key, value, "description")
      [] name = "KeyPair" -> Arg_KeyPair(key, value, "web.vpc.tld")
      [] name = "SecurityGroup" -> Arg_SecurityGroup(key, value, "description")
      [] name = "RouteTable" -> Arg_RouteTable(key, value, "description")
      [] name = "Certificate" -> Arg_Certificate(key, value, "description")

InitArg ==
    /\ scenario \in Scenarios
    /\ self = Unconstructed
    /\ pc = "arg"
    /\ last = [op |-> "none", args |-> EmptyDict, exc |-> None]
    /\ pre = Unconstructed
    /\ nops = 0
    /\ wait = FALSE
    /\ calls = <<>>
    /\ response = [Stacks |-> <<>>]
    /\ rtn = None
    /\ polls = 0
    /\ locals = NoLocals

Call_Arg ==
    /\ pc = "arg"
    /\ \E name \in ArgConstructors, key \in ArgKeys, value \in ArgInputs :
         last' = [op |-> "Arg." \o name,
                  args |-> [name |-> name, key |-> key, value |-> value],
                  exc |-> None, ret |-> Arg_call(name, key, value)]
    /\ UNCHANGED <<locals, scenario, self, pc, pre, nops, wait, calls, response, rtn, polls>>

NextArg == Call_Arg

SpecArg == InitArg /\ [][NextArg]_vars

---------------------------------------------------------------------------
\* The bastion utility: ssh and connect_vault of vault/bastion.py.

\* What runs inside the tunnel: the ssh client of ssh(), or the cmd callable
\* handed to connect_vault.
TunnelCommands ==
    {"ssh", "vault-provision", "vault-django", "vault-revoke", "vault-write",
     "vault-delete"}

\* The function that wraps a command.
TunnelFunction(command) == IF command = "ssh" THEN "ssh" ELSE "connect_vault"

\* The exceptions a wrapped command may end with; None when it returns.
CommandOutcomes == {None, "OSError", "Exception"}

\* A function that runs its cleanup only when the command returns.
after_command_no_finally(outcome) == IF outcome = None THEN "terminate" ELSE "raised"

\* try: ... finally: the finally block runs however the command ends.
after_command(outcome) == "terminate"

InitBastion ==
    /\ scenario \in Scenarios
    /\ self = Unconstructed
    /\ pc = "popen"
    /\ last = [op |-> "none", args |-> EmptyDict, exc |-> None]
    /\ pre = Unconstructed
    /\ nops = 0
    /\ wait = FALSE
    /\ calls = <<>>
    /\ response = [Stacks |-> <<>>]
    /\ rtn = None
    /\ polls = 0
    /\ \E command \in TunnelCommands :
         locals = [workflow |-> None, function |-> TunnelFunction(command),
                   command |-> command, proc |-> "none", outcome |-> None]

\* proc = subprocess.Popen(shlex.split(fwd_cmd)): the tunnel process runs, or
\* Popen raises and there is no process.
Popen ==
    /\ pc = "popen"
    /\ calls' = Append(calls, "Popen")
    /\ \/ /\ locals' = [locals EXCEPT !.proc = "running"]
          /\ pc' = "sleep"
          /\ last' = [op |-> locals.function, args |-> EmptyDict, exc |-> None]
       \/ /\ pc' = "raised"
          /\ last' = [op |-> locals.function, args |-> EmptyDict, exc |-> "OSError"]
          /\ UNCHANGED locals
    /\ UNCHANGED <<scenario, self, pre, nops, wait, response, rtn, polls>>

\* time.sleep(1)
Sleep ==
    /\ pc = "sleep"
    /\ calls' = Append(calls, "sleep")
    /\ pc' = "try"
    /\ UNCHANGED <<locals, scenario, self, last, pre, nops, wait, response, rtn, polls>>

\* The tunnel process ends by itself; it stays a child until it is waited for.
Tunnel_exits ==
    /\ pc \in {"sleep", "try", "terminate"}
    /\ locals.proc = "running"
    /\ locals' = [locals EXCEPT !.proc = "exited"]
    /\ UNCHANGED <<scenario, self, pc, last, pre, nops, wait, calls, response, rtn, polls>>

\* The body of the try statement: the wrapped command returns or raises.
Run_command ==
    /\ pc = "try"
    /\ calls' = Append(calls, locals.command)
    /\ \E outcome \in CommandOutcomes :
         /\ locals' = [locals EXCEPT !.outcome = outcome]
         /\ pc' = after_command(outcome)
    /\ UNCHANGED <<scenario, self, last, pre, nops, wait, response, rtn, polls>>

\* proc.terminate(): a running process is sent SIGTERM.
Terminate ==
    /\ pc = "terminate"
    /\ calls' = Append(calls, "proc.terminate")
    /\ locals' = [locals EXCEPT !.proc = IF @ = "running" THEN "terminated" ELSE @]
    /\ pc' = "wait"
    /\ UNCHANGED <<scenario, self, last, pre, nops, wait, response, rtn, polls>>

\* proc.wait(): the process has ended and is reaped; the function then
\* returns, or the exception of the command goes on to the caller.
Wait ==
    /\ pc = "wait"
    /\ calls' = Append(calls, "proc.wait")
    /\ locals' = [locals EXCEPT !.proc = "reaped"]
    /\ pc' = IF locals.outcome = None THEN "returned" ELSE "raised"
    /\ last' = [last EXCEPT !.exc = locals.outcome]
    /\ UNCHANGED <<scenario, self, pre, nops, wait, response, rtn, polls>>

NextBastion ==
    \/ Popen
    \/ Sleep
    \/ Tunnel_exits
    \/ Run_command
    \/ Terminate
    \/ Wait

SpecBastion == InitBastion /\ [][NextBastion]_vars

---------------------------------------------------------------------------
\* The builder operations that take scenario-varying values, each applied to
\* a fresh configuration.

\* Instance types: plain, per scenario, with and without a "default" entry.
SizedTypes ==
    {Scalar("small"),
     ByScenario([production |-> "large"]),
     ByScenario([development |-> None, default |-> "medium"]),
     ByScenario([production |-> "large", default |-> "medium"])}

\* Replica counts, as the strings a configuration script passes.
SizedCounts ==
    {Scalar("2"), ByScenario([production |-> "3"]), ByScenario([default |-> "2"])}

\* min and max of an autoscale group, as ints.
SizedBounds == {Scalar(1), Scalar(2)}

InitSizing ==
    /\ scenario \in Scenarios \cup {"staging"}
    /\ self = __init__("vpc.tld", "us-east-1").self
    /\ pc = "size"
    /\ last = [op |-> "none", args |-> EmptyDict, exc |-> None]
    /\ pre = Unconstructed
    /\ nops = 0
    /\ wait = FALSE
    /\ calls = <<>>
    /\ response = [Stacks |-> <<>>]
    /\ rtn = None
    /\ polls = 0
    /\ locals = NoLocals

\* One builder call on the fresh configuration.
Sized(op, args, res) ==
    /\ pc = "size"
    /\ pc' = "sized"
    /\ self' = res.self
    /\ pre' = self
    /\ last' = [op |-> op, args |-> args, exc |-> res.exc]
    /\ UNCHANGED <<locals, scenario, nops, wait, calls, response, rtn, polls>>

Size_ec2_instance ==
    \E type_ \in SizedTypes :
        Sized("add_ec2_instance", [key |-> "Web", type_ |-> type_],
              add_ec2_instance(self, scenario, "Web", Hostname("Web"), AmiId("ami-1"),
                               "keypair", "Subnet", type_, TRUE, FALSE, NoList,
                               NoData, None, None))

Size_rds_db ==
    \E type_ \in SizedTypes :
        Sized("add_rds_db", [key |-> "DB", type_ |-> type_],
              add_rds_db(self, scenario, "DB", Hostname("DB"), "3306", "boss",
                         "testuser", "secret", <<"ASubnet", "BSubnet">>, type_,
                         "5", NoList))

Size_redis_cluster ==
    \E type_ \in SizedTypes :
        Sized("add_redis_cluster", [key |-> "DB", type_ |-> type_],
              add_redis_cluster(self, scenario, "DB", Hostname("DB"), <<"Subnet">>,
                                <<"SG">>, type_, "6379", "2.8.24"))

Size_redis_replication ==
    \E type_ \in SizedTypes, clusters \in SizedCounts :
        Sized("add_redis_replication",
              [key |-> "DB", type_ |-> type_, clusters |-> clusters],
              add_redis_replication(self, scenario, "DB", Hostname("DB"),
                                    <<"Subnet">>, <<"SG">>, type_, "6379",
                                    "2.8.24", clusters))

Size_autoscale_group ==
    \E type_ \in SizedTypes, min \in SizedBounds, max \in SizedBounds :
        Sized("add_autoscale_group",
              [key |-> "Web", type_ |-> type_, min |-> min, max |-> max],
              add_autoscale_group(self, scenario, "Web", Hostname("Web"),
                                  AmiId("ami-1"), "keypair", <<"Subnet">>, type_,
                                  FALSE, SomeList(<<"SG">>), None, min, max, None,
                                  None))

NextSizing ==
    \/ Size_ec2_instance
    \/ Size_rds_db
    \/ Size_redis_cluster
    \/ Size_redis_replication
    \/ Size_autoscale_group

SpecSizing == InitSizing /\ [][NextSizing]_vars

---------------------------------------------------------------------------
\* create_config of the production and of the proofreader deployment script,
\* one statement group at a time.

Scripts == {"production", "proofreader"}

\* ADDRESSES of production.py, passed where the constructor takes the region.
ADDRESSES == [endpoint |-> 10..19, db |-> 20..29]

\* Who calls create_config: generate (no session, no keypair, no user data,
\* no db_config) or create; for create, whether the VPC was found.
Callers == {"generate", "create", "create-no-vpc"}

\* The (az, sub) pairs lib.azs_lookup returns.
ZoneLists ==
    {<<>>, << <<"us-east-1a", "a">> >>,
     << <<"us-east-1a", "a">>, <<"us-east-1b", "b">> >>}

\* sub.capitalize()
capitalize(sub) == IF sub = "a" THEN "A" ELSE IF sub = "b" THEN "B" ELSE sub

\* The id a lookup of lib returns to this caller.
looked_up(caller, id) == IF caller = "generate" THEN None ELSE id

\* find_all_availability_zones over the zones azs: the configuration with the
\* subnet arguments added, and the tuple (internal, external) of their names.
RECURSIVE find_all_availability_zones(_, _, _)
find_all_availability_zones(s, caller, azs) ==
    IF azs = <<>>
    THEN [self |-> s, rtn |-> << <<>>, <<>> >>]
    ELSE LET before == find_all_availability_zones(s, caller, SubSeq(azs, 1, Len(azs) - 1))
             sub == azs[Len(azs)][2]
             internal == capitalize(sub) \o "InternalSubnet"
             external == capitalize(sub) \o "ExternalSubnet"
             s1 == add_arg(before.self,
                           Arg_Subnet(internal,
                                      looked_up(caller, "subnet-" \o sub \o "-internal"), ""))
             s2 == add_arg(s1,
                           Arg_Subnet(external,
                                      looked_up(caller, "subnet-" \o sub \o "-external"), ""))
         IN  [self |-> s2,
              rtn |-> <<Append(before.rtn[1], internal),
                        Append(before.rtn[2], external)>>]

\* The items of a Python list as its repr writes them.
RECURSIVE quoted(_)
quoted(l) ==
    IF l = <<>>
    THEN ""
    ELSE "'" \o l[1] \o "'" \o (IF Len(l) > 1 THEN ", " \o quoted(Tail(l)) ELSE "")

\* A list that stands where a key is expected, written as its repr: the
\* text of no key.
py_list(l) == "[" \o quoted(l) \o "]"

InitDeploy ==
    /\ scenario \in Scenarios
    /\ self = Unconstructed
    /\ pc = "config"
    /\ last = [op |-> "none", args |-> EmptyDict, exc |-> None]
    /\ pre = Unconstructed
    /\ nops = 0
    /\ wait = FALSE
    /\ calls = <<>>
    /\ response = [Stacks |-> <<>>]
    /\ rtn = None
    /\ polls = 0
    /\ \E script \in Scripts, domain \in {"tld", "vpc.tld", "sub.vpc.tld"},
          caller \in Callers, internet_sg_id \in {None, "sg-2"},
          azs \in ZoneLists :
          /\ script = "production" => internet_sg_id = None /\ azs = <<>>
          /\ caller = "generate" => internet_sg_id = None
          /\ locals = [workflow |-> None, script |-> script, domain |-> domain,
                       caller |-> caller,
                       vpc_id |-> IF caller = "create" THEN "vpc-1" ELSE None,
                       internet_sg_id |-> internet_sg_id, azs |-> azs,
                       az_subnets |-> << <<>>, <<>> >>]

\* One statement group of create_config.
Step(at, op, res, next) ==
    /\ pc = at
    /\ pc' = IF res.exc = None THEN next ELSE "raised"
    /\ self' = res.self
    /\ pre' = self
    /\ last' = [op |-> op, args |-> EmptyDict, exc |-> res.exc]
    /\ UNCHANGED <<scenario, nops, wait, calls, response, rtn, polls>>

\* config = CloudFormationConfiguration(domain, ...) and the check of the
\* domain.
Deploy_config ==
    LET region == IF locals.script = "production" THEN ADDRESSES ELSE "us-east-1"
        made == __init__(locals.domain, region)
    IN  /\ Step("config", "__init__",
                IF made.exc = None /\ made.self.subnet_domain # None
                THEN Raised(made.self, "Invalid VPC domain name")
                ELSE made,
                "lookups")
        /\ UNCHANGED locals

\* The check of the VPC and the three arguments looked up.
Deploy_lookups ==
    LET s1 == add_arg(self, Arg_VPC("VPC", locals.vpc_id,
                                    "ID of VPC to create resources in"))
        s2 == add_arg(s1, Arg_Subnet("ExternalSubnet",
                                     looked_up(locals.caller, "subnet-1"),
                                     "ID of External Subnet to create resources in"))
        s3 == add_arg(s2, Arg_SecurityGroup("InternalSecurityGroup",
                                            looked_up(locals.caller, "sg-1"),
                                            "ID of internal Security Group"))
    IN  /\ Step("lookups", "add_arg",
                IF locals.caller # "generate" /\ locals.vpc_id = None
                THEN Raised(self, "VPC does not exists, exiting...")
                ELSE Returned(s3),
                IF locals.script = "production" THEN "subnets" ELSE "internet")
        /\ UNCHANGED locals

\* production: ASubnet and BSubnet.
Production_subnets ==
    LET a == [self EXCEPT !.subnet_domain = "a." \o locals.domain,
                          !.subnet_subnet = hosts_lookup("a." \o locals.domain)]
        s1 == add_subnet(a, "ASubnet", "VPC", "us-east-1b")
        b == [s1 EXCEPT !.subnet_domain = "b." \o locals.domain,
                        !.subnet_subnet = hosts_lookup("b." \o locals.domain)]
        s2 == add_subnet(b, "BSubnet", "VPC", "us-east-1c")
    IN  /\ Step("subnets", "add_subnet", Returned(s2), "web")
        /\ UNCHANGED locals

\* proofreader: the internet security group, created or looked up.
Proofreader_internet ==
    /\ Step("internet", "add_security_group",
            Returned(IF locals.internet_sg_id = None
                     THEN add_security_group(self, "InternetSecurityGroup",
                                             "internet", InternetRules, "VPC")
                     ELSE add_arg(self, Arg_SecurityGroup("InternetSecurityGroup",
                                                          locals.internet_sg_id,
                                                          "ID of internal Security Group"))),
            "zones")
    /\ UNCHANGED locals

\* proofreader: az_subnets = config.find_all_availability_zones(session)
Proofreader_zones ==
    LET found == find_all_availability_zones(self, locals.caller, locals.azs)
    IN  /\ Step("zones", "find_all_availability_zones", Returned(found.self), "web")
        /\ locals' = [locals EXCEPT !.az_subnets = found.rtn]

\* The web instance, ordered after a database that is not registered yet.
Deploy_web ==
    LET production == locals.script = "production"
        user_data == IF locals.caller = "generate" THEN None ELSE "[vault]"
        user_data_ == "Fn::Join" :>
                          <<"", <<user_data, "\n[aws]\n", "db = ",
                                  GetAtt("DB", "Endpoint.Address"), "\n">> >>
    IN  /\ Step("web", "add_ec2_instance",
                add_ec2_instance(self, scenario,
                    IF production THEN "Endpoint" ELSE "ProofreaderWeb",
                    IF production THEN "endpoint.external." \o locals.domain
                    ELSE "proofreader-web." \o locals.domain,
                    AmiId(looked_up(locals.caller, "ami-1")),
                    looked_up(locals.caller, "keypair"),
                    "ExternalSubnet", Scalar("t2.micro"), TRUE, TRUE,
                    SomeList(<<"InternalSecurityGroup", "InternetSecurityGroup">>),
                    IF production THEN SomeData(user_data_)
                    ELSE IF user_data = None THEN NoData ELSE SomeData(user_data),
                    None,
                    IF production THEN "DB" ELSE "ProofreaderDB"),
                "db")
        /\ UNCHANGED locals

\* The database. production names its two subnets; proofreader passes
\* az_subnets, the tuple of two lists, so each item is a list.
Deploy_db ==
    LET production == locals.script = "production"
        given == locals.caller # "generate"
        subnets == IF production
                   THEN <<"ASubnet", "BSubnet">>
                   ELSE <<py_list(locals.az_subnets[1]), py_list(locals.az_subnets[2])>>
    IN  /\ Step("db", "add_rds_db",
                add_rds_db(self, scenario,
                    IF production THEN "DB" ELSE "ProofreaderDB",
                    IF production THEN "db." \o locals.domain
                    ELSE "proofreader-db." \o locals.domain,
                    IF given THEN "3306" ELSE None,
                    IF ~given THEN None
                    ELSE IF production THEN "boss" ELSE "microns_proofreader",
                    IF ~given THEN None
                    ELSE IF production THEN "testuser" ELSE "proofreader",
                    IF given THEN "secret" ELSE None,
                    subnets, Scalar("db.t2.micro"), "5",
                    SomeList(<<"InternalSecurityGroup">>)),
                IF production THEN "group" ELSE "return")
        /\ UNCHANGED locals

\* production: the internet security group, after the instance that names it.
Production_group ==
    /\ Step("group", "add_security_group",
            Returned(add_security_group(self, "InternetSecurityGroup", "internet",
                                        InternetRules, "VPC")),
            "return")
    /\ UNCHANGED locals

\* return config
Deploy_return ==
    /\ pc = "return"
    /\ pc' = "returned"
    /\ last' = [op |-> "create_config", args |-> EmptyDict, exc |-> None]
    /\ pre' = self
    /\ UNCHANGED <<self, locals, scenario, nops, wait, calls, response, rtn, polls>>

NextDeploy ==
    \/ Deploy_config
    \/ Deploy_lookups
    \/ Production_subnets
    \/ Proofreader_internet
    \/ Proofreader_zones
    \/ Deploy_web
    \/ Deploy_db
    \/ Production_group
    \/ Deploy_return

SpecDeploy == InitDeploy /\ [][NextDeploy]_vars

---------------------------------------------------------------------------
\* Properties of the builder (Spec).

ArgumentKeys == {arguments[i].ParameterKey : i \in 1..Len(arguments)}

\* C1: after any sequence of builder calls and add_arg calls, the keys of
\* parameters are exactly the ParameterKey values of arguments, no key occurs
\* twice in arguments, and len(arguments) == len(parameters).
C1_Lockstep ==
    /\ DOMAIN parameters = ArgumentKeys
    /\ \A i, j \in 1..Len(arguments) :
         arguments[i].ParameterKey = arguments[j].ParameterKey => i = j
    /\ Len(arguments) = Cardinality(DOMAIN parameters)

\* A builder call has met a parameter key that an earlier call had added.
C1_Witness ==
    /\ nops = 2
    /\ last.op = "add_rds_db"
    /\ last.args.key = "DB"
    /\ "DBHostname" \in DOMAIN pre.parameters
    /\ Len(arguments) >= 6

\* C2: add_arg with a key already in parameters leaves parameters and arguments
\* as they were (the first spec and the first bound value stay, also when the
\* second call carries another value); a key not yet present is added to both.
C2_IdempotentAdd ==
    last.op = "add_arg" =>
        LET arg == MakeArg(last.args.kind, last.args.key, last.args.value)
        IN  IF last.args.key \in DOMAIN pre.parameters
            THEN /\ parameters = pre.parameters
                 /\ arguments = pre.arguments
            ELSE /\ parameters = Put(pre.parameters, last.args.key, arg.parameter)
                 /\ arguments = Append(pre.arguments, arg.argument)

\* add_arg was called with a key already bound, and with another value.
C2_Witness ==
    /\ last.op = "add_arg"
    /\ last.args.key \in DOMAIN pre.parameters
    /\ \E i \in 1..Len(pre.arguments) :
         /\ pre.arguments[i].ParameterKey = last.args.key
         /\ pre.arguments[i].ParameterValue # last.args.value
         /\ arguments[i] = pre.arguments[i]

\* The target properties a Route resource carries.
RouteTargets(r) ==
    DOMAIN r.Properties \cap {"GatewayId", "VpcPeeringConnectionId", "InstanceId"}

\* C5: add_route_table_route fails with none of gateway/peer/instance given and
\* with two or three given; with exactly one it succeeds, and the Route it
\* registers carries exactly the target property of the target given.
C5_RouteTarget ==
    last.op = "add_route_table_route" =>
        LET a == last.args
            n == Cardinality({t \in {"gateway", "peer", "instance"} : a[t] # None})
        IN  /\ (last.exc # None) <=> (n # 1)
            /\ n = 1 =>
                 /\ a.key \in DOMAIN resources
                 /\ resources[a.key].Type = "AWS::EC2::Route"
                 /\ a.gateway # None =>
                      /\ RouteTargets(resources[a.key]) = {"GatewayId"}
                      /\ resources[a.key].Properties["GatewayId"] = Ref(a.gateway)
                 /\ a.peer # None =>
                      /\ RouteTargets(resources[a.key]) = {"VpcPeeringConnectionId"}
                      /\ resources[a.key].Properties["VpcPeeringConnectionId"]
                           = Ref(a.peer)
                 /\ a.instance # None =>
                      /\ RouteTargets(resources[a.key]) = {"InstanceId"}
                      /\ resources[a.key].Properties["InstanceId"] = Ref(a.instance)

\* A route was added with the peering connection as its only target.
C5_Witness ==
    /\ last.op = "add_route_table_route"
    /\ last.exc = None
    /\ last.args.peer # None
    /\ RouteTargets(resources[last.args.key]) = {"VpcPeeringConnectionId"}

RolesSelected(a) ==
    Cardinality({r \in {"rds", "cluster", "replication", "ec2"} : a[r]})

\* The Record resources whose attribute path is unset.
UnsetRecords ==
    {k \in DOMAIN resources :
        /\ resources[k].Type = "AWS::Route53::RecordSet"
        /\ resources[k].Properties.ResourceRecords[1]["Fn::GetAtt"][2] = None}

\* C7: _add_record_cname requires exactly one of rds/cluster/replication/ec2: a
\* call with none or with several is rejected, and no Record is ever registered
\* whose attribute path is unset.
C7_ExactlyOneRole ==
    /\ (last.op = "_add_record_cname" /\ RolesSelected(last.args) # 1) =>
           (last.exc # None /\ resources = pre.resources)
    /\ UnsetRecords = {}

\* C8: after add_rds_db(key, ...) resources holds the database instance under
\* key, its subnet group under key + "SubnetGroup" and a DNS alias record under
\* key + "Record" whose record value is the attribute (key, "Endpoint.Address").
C8_RdsRegisters ==
    last.op = "add_rds_db" =>
        LET key == last.args.key
        IN  /\ last.exc = None
            /\ {key, key \o "SubnetGroup", key \o "Record"} \subseteq DOMAIN resources
            /\ resources[key].Type = "AWS::RDS::DBInstance"
            /\ resources[key].Properties.DBSubnetGroupName = Ref(key \o "SubnetGroup")
            /\ resources[key \o "SubnetGroup"].Type = "AWS::RDS::DBSubnetGroup"
            /\ resources[key \o "Record"].Type = "AWS::Route53::RecordSet"
            /\ resources[key \o "Record"].Properties.ResourceRecords
                 = <<GetAtt(key, "Endpoint.Address")>>

\* add_rds_db ran on a configuration that had none of the three resources.
C8_Witness ==
    /\ last.op = "add_rds_db"
    /\ last.args.key = "Web"
    /\ DOMAIN pre.resources \cap {"Web", "WebSubnetGroup", "WebRecord"} = {}
    /\ "WebRecord" \in DOMAIN resources

---------------------------------------------------------------------------
\* Properties of get_scenario (SpecScenario).

\* What the contract of get_scenario gives: the value itself when it is no
\* mapping, else the selector's entry if present, else the "default" entry if
\* present, else the fallback.
Resolved(var, default, env) ==
    IF ~var.dict THEN var.v
    ELSE IF env \in DOMAIN var.d THEN var.d[env]
    ELSE IF "default" \in DOMAIN var.d THEN var.d["default"]
    ELSE default

\* C4: get_scenario(value, fallback) returns value unchanged when it is not a
\* mapping, and for a mapping value[selector] if that entry is present, else
\* value["default"] if present, else fallback, for every selector, mapping and
\* fallback.
C4_Resolve ==
    last.op = "get_scenario" =>
        last.ret = Resolved(last.args.var, last.args.default, scenario)

---------------------------------------------------------------------------
\* Properties of create (SpecCreate).

NullKeys ==
    {arguments[i].ParameterKey :
        i \in {j \in 1..Len(arguments) : arguments[j].ParameterValue = None}}

InCreate == last.op = "create"

\* C3: create on a configuration with an argument bound to None fails before
\* any provider call (create_stack, describe_stacks) is made, and the failure
\* names the key of an argument bound to None.
C3_NullArgument ==
    (InCreate /\ NullKeys # {}) =>
        /\ pc = "raised"
        /\ calls = <<>>
        /\ \E k \in NullKeys :
             last.exc = "Could not determine argument '" \o k \o "'"

\* create ran on arguments whose first is bound and whose second is not.
C3_Witness ==
    /\ InCreate
    /\ Len(arguments) = 3
    /\ arguments[1].ParameterValue # None
    /\ arguments[2].ParameterValue = None
    /\ arguments[3].ParameterValue = None
    /\ last.exc = "Could not determine argument 'P2'"

\* C9: create with wait = False calls create_stack, never calls
\* describe_stacks, and returns None, whatever the provider would report.
C9_NoWait ==
    (InCreate /\ ~wait) =>
        /\ \A i \in 1..Len(calls) : calls[i] # "describe_stacks"
        /\ pc \in {"returned", "raised"}
        /\ pc = "returned" => (calls = <<"create_stack">> /\ rtn = None)

\* create with wait = False has returned.
C9_Witness ==
    /\ InCreate
    /\ ~wait
    /\ pc = "returned"
    /\ Len(arguments) > 0

\* The status the last describe_stacks reported.
NoStack == Len(response.Stacks) = 0

RECURSIVE PollTrace(_)
PollTrace(n) ==
    IF n = 0
    THEN <<"create_stack", "describe_stacks">>
    ELSE PollTrace(n - 1) \o <<"sleep", "describe_stacks">>

\* The last describe_stacks of a waiting create answered with a stack in the
\* given status.
Observed(status) ==
    /\ InCreate
    /\ wait
    /\ pc \in {"poll", "returned"}
    /\ Len(response.Stacks) > 0
    /\ get_status(response) = status

\* create stands in its wait loop.
Polling == InCreate /\ wait /\ pc = "poll"

\* C11: the wait loop has no timeout. While the polls report CREATE_IN_PROGRESS
\* create does not return: its only step is one sleep followed by one more
\* describe_stacks, however many polls went before. create never returns while
\* the last observed status is CREATE_IN_PROGRESS, and once a status other
\* than CREATE_IN_PROGRESS is reported, create eventually returns.
C11_WaitLoop ==
    /\ [](Observed("CREATE_IN_PROGRESS") => pc = "poll")
    /\ [](Polling => calls = PollTrace(polls))
    /\ [][Observed("CREATE_IN_PROGRESS") =>
            /\ pc' # "returned"
            /\ calls' = calls \o <<"sleep", "describe_stacks">>]_vars
    /\ \A st \in Statuses \ {"CREATE_IN_PROGRESS"} :
         (Polling /\ Observed(st)) ~> (pc = "returned" /\ rtn = create_result(st))

\* create has returned after the stack was reported in progress MaxPolls times.
C11_Witness ==
    /\ Observed("CREATE_COMPLETE")
    /\ pc = "returned"
    /\ polls = MaxPolls
    /\ calls = PollTrace(MaxPolls)
    /\ rtn = PyTrue

\* The last describe_stacks of create answered, rather than raised.
Answered ==
    /\ InCreate
    /\ calls # <<>>
    /\ calls[Len(calls)] = "describe_stacks"
    /\ last.exc = None \/ pc = "poll"

\* C19: with wait = True, a describe_stacks answer without the stack makes
\* create return a failure result and never raise, on the first status query
\* and on a later poll alike.
C19_AbsentStackReturned ==
    [][(wait /\ Answered /\ Len(response.Stacks) = 0 /\ pc \in {"describe", "poll"})
         => (pc' = "returned" /\ rtn' \in {None, PyFalse})]_vars

---------------------------------------------------------------------------
\* Properties of the constructor (Spec).

\* C17: constructing a Configuration raises at once when the domain name has
\* neither two nor three dot-separated labels; with two labels the VPC domain
\* is the whole name and the subnet domain and subnet CIDR are None; with
\* three labels the VPC domain is the name without its first label and the
\* subnet domain is the whole name.
C17_DomainLabels ==
    last.op = "__init__" =>
        LET domain == last.args.domain
            labels == Len(split(domain))
        IN  /\ labels \notin {2, 3} =>
                /\ pc = "raised"
                /\ last.exc = "Not a valiid VPC or Subnet domain name"
                /\ resources = EmptyDict
            /\ labels = 2 =>
                /\ pc = "build"
                /\ last.exc = None
                /\ self.vpc_domain = domain
                /\ self.subnet_domain = None
                /\ self.subnet_subnet = None
            /\ labels = 3 =>
                /\ pc = "build"
                /\ last.exc = None
                /\ self.vpc_domain = split1_tail(domain)
                /\ self.subnet_domain = domain

\* The constructor has refused a name of four labels.
C17_Witness ==
    /\ last.op = "__init__"
    /\ last.args.domain = "a.sub.vpc.tld"
    /\ pc = "raised"

---------------------------------------------------------------------------
\* Properties of the live-deployment workflows (SpecWorkflow).

\* The workflow has ended with an exception after its except clause ran.
Compensated == pc = "raised" /\ locals.original # None

\* The secrets a reversal call was made for.
AttemptedSecrets == {c.secret : c \in locals.attempted}

\* Every call_vault call of the except clause.
ReversalCalls(w) ==
    UNION {{ReversalBlocks(w)[b][i] : i \in 1..Len(ReversalBlocks(w)[b])} :
             b \in 1..Len(ReversalBlocks(w))}

\* C12: when submission fails, a reversal is attempted for every secret issued
\* before it, whichever of the reversals raise.
C12_EveryReversalAttempted ==
    Compensated => \A i \in 1..Len(locals.issued) : locals.issued[i] \in AttemptedSecrets

\* C13: whenever compensation has run, the caller observes the original
\* failure, it is raised only after all reversal steps have been attempted,
\* and it is none of the errors the reversal steps raised.
C13_OriginalErrorObserved ==
    Compensated =>
        /\ last.exc = locals.original
        /\ last.exc \notin locals.swallowed
        /\ ReversalCalls(locals.workflow) \subseteq locals.attempted

\* C14: whenever a workflow ends with an error, also one raised by a later
\* secret-issuing step, every secret issued so far was given a reversal
\* attempt before the error reached the caller.
C14_IssuedSecretsReversed ==
    (pc = "raised" /\ locals.workflow # None) =>
        \A i \in 1..Len(locals.issued) : locals.issued[i] \in AttemptedSecrets

---------------------------------------------------------------------------
\* Properties of the Arg constructors (SpecArg).

\* The provider type each constructor declares.
ParameterType(name) ==
    CASE name \in {"String", "Password", "IP", "CIDR", "RouteTable"} -> "String"
      [] name = "Port" -> "Number"
      [] name = "VPC" -> "AWS::EC2::VPC::Id"
      [] name = "Subnet" -> "AWS::EC2::Subnet::Id"
      [] name = "AMI" -> "AWS::EC2::Image::Id"
      [] name = "Instance" -> "AWS::EC2::Instance::Id"
      [] name = "KeyPair" -> "AWS::EC2::KeyPair::KeyName"
      [] name = "SecurityGroup" -> "AWS::EC2::SecurityGroup::Id"
      [] name = "Certificate" -> "AWS::ACM::Certificate::Id"

\* The constraint fields each constructor puts into the parameter spec.
ConstraintFields(name) ==
    CASE name \in {"IP", "CIDR"} ->
           {"MinLength", "MaxLength", "AllowedPattern", "ConstraintDescription"}
      [] name = "Port" -> {"MinValue", "MaxValue"}
      [] name = "Password" -> {"NoEcho"}
      [] name = "KeyPair" -> {"ConstraintDescription"}
      [] OTHER -> {}

\* C15: every Arg constructor accepts any value, None and values that break
\* its format included, without failing: it returns the parameter spec with
\* the constructor's type and constraints, and an argument that binds the key
\* to exactly the value given.
C15_ArgUnvalidated ==
    last.op # "none" =>
        LET name == last.args.name
        IN  /\ last.exc = None
            /\ last.ret.key = last.args.key
            /\ last.ret.parameter.Type = ParameterType(name)
            /\ ConstraintFields(name) \subseteq DOMAIN last.ret.parameter
            /\ last.ret.argument =
                 [ParameterKey |-> last.args.key, ParameterValue |-> last.args.value]

\* Arg.CIDR was given a value that is no CIDR block and has bound it.
C15_Witness ==
    /\ last.op = "Arg.CIDR"
    /\ last.args.value = "10.0.0/33"
    /\ last.ret.argument.ParameterValue = "10.0.0/33"
    /\ "AllowedPattern" \in DOMAIN last.ret.parameter

---------------------------------------------------------------------------
\* Properties of serialization (Spec).

\* C16: generate leaves resources, parameters and arguments as they were and
\* validates nothing: it succeeds, writing the template and the arguments
\* file, also on a configuration with an argument bound to None, which create
\* refuses.
C16_GenerateFrame ==
    last.op = "generate" =>
        /\ resources = pre.resources
        /\ parameters = pre.parameters
        /\ arguments = pre.arguments
        /\ last.exc = None
        /\ DOMAIN last.files = {"templates/production-vpc-tld.template",
                                "templates/production-vpc-tld.arguments"}
        /\ last.files["templates/production-vpc-tld.template"].document.Resources = resources
        /\ last.files["templates/production-vpc-tld.template"].document.Parameters = parameters
        /\ last.files["templates/production-vpc-tld.arguments"].document = arguments

\* generate has run on a configuration with resources and with an argument
\* bound to None, for which create raises.
C16_Witness ==
    /\ last.op = "generate"
    /\ last.exc = None
    /\ resources # EmptyDict
    /\ null_check(arguments) # None

---------------------------------------------------------------------------
\* Properties of the resource collection (Spec).

\* C18: after any sequence of builder operations every entry of resources is
\* a resource definition, with a Type tag and a Properties bag, the topic of
\* add_sns_topic included.
C18_ResourceShape ==
    \A key \in DOMAIN resources : {"Type", "Properties"} \subseteq DOMAIN resources[key]

\* The second member of the pair an operation registers under key.
PairedKey(op, key) ==
    IF op = "add_autoscale_group" THEN key \o "Configuration" ELSE key \o "SubnetGroup"

\* The property of the first member that names the second.
PairReference(op, resource) ==
    IF op = "add_autoscale_group"
    THEN resource.Properties.LaunchConfigurationName
    ELSE resource.Properties.DBSubnetGroupName

\* C20: whenever add_autoscale_group or add_rds_db has returned or raised,
\* resources holds both members of the pair or neither, and the first member
\* refers to the second by its key.
C20_PairAtomic ==
    last.op \in {"add_autoscale_group", "add_rds_db"} =>
        LET key == last.args.key
            second == PairedKey(last.op, key)
        IN  /\ key \in DOMAIN resources <=> second \in DOMAIN resources
            /\ key \in DOMAIN resources =>
                 PairReference(last.op, resources[key]) = Ref(second)

---------------------------------------------------------------------------
\* Properties of single builder operations (Spec).

\* C21: after add_redis_replication(key, ...) has completed, the replication
\* group under key has DependsOn key+"SubnetGroup" and the subnet group is
\* registered under that key, so the edge names an existing resource.
C21_ReplicationDependsOn ==
    (last.op = "add_redis_replication" /\ last.exc = None) =>
        LET key == last.args.key
        IN  /\ key \in DOMAIN resources
            /\ resources[key].Type = "AWS::ElastiCache::ReplicationGroup"
            /\ resources[key].DependsOn = key \o "SubnetGroup"
            /\ resources[key].DependsOn \in DOMAIN resources
            /\ resources[key \o "SubnetGroup"].Type = "AWS::ElastiCache::SubnetGroup"

\* add_redis_replication has completed on a configuration that had no
\* resource under key+"SubnetGroup".
C21_Witness ==
    /\ last.op = "add_redis_replication"
    /\ last.exc = None
    /\ last.args.key \o "SubnetGroup" \notin DOMAIN pre.resources
    /\ last.args.key \o "SubnetGroup" \in DOMAIN resources

\* C26: an add_route_table_route call that is rejected leaves resources,
\* parameters and arguments as they were before the call.
C26_RejectedRouteFrame ==
    (last.op = "add_route_table_route" /\ last.exc # None) =>
        /\ DOMAIN resources = DOMAIN pre.resources
        /\ resources = pre.resources
        /\ parameters = pre.parameters
        /\ arguments = pre.arguments

\* C27: add_redis_cluster always ends in the not-supported failure and leaves
\* resources, parameters and arguments as they were before the call.
C27_RedisClusterFrame ==
    last.op = "add_redis_cluster" =>
        /\ last.exc = "NotSupported currently"
        /\ DOMAIN resources = DOMAIN pre.resources
        /\ resources = pre.resources
        /\ parameters = pre.parameters
        /\ arguments = pre.arguments

---------------------------------------------------------------------------
\* Properties of the provider calls of create (SpecCreate).

\* The positions of a call in calls.
Positions(call) == {i \in 1..Len(calls) : calls[i] = call}

\* C29: within one create call create_stack is invoked at most once; exactly
\* once, as the first provider call and so before every describe_stacks, when
\* no argument is bound to None, and not at all when one is; no step of the
\* wait loop submits the stack again.
C29_SubmitOnce ==
    /\ [](InCreate =>
            /\ Cardinality(Positions("create_stack")) <= 1
            /\ NullKeys = {} => Positions("create_stack") = {1}
            /\ NullKeys # {} => calls = <<>>
            /\ \A i \in Positions("describe_stacks") : i > 1)
    /\ [][InCreate => Positions("create_stack")' = Positions("create_stack")]_vars

\* A waiting create has polled again and returned, with one create_stack.
C29_Witness ==
    /\ InCreate
    /\ pc = "returned"
    /\ polls >= 1
    /\ Positions("create_stack") = {1}
    /\ Cardinality(Positions("describe_stacks")) >= 2

---------------------------------------------------------------------------
\* Reversal and submission in the live-deployment workflows (SpecWorkflow).

\* The workflow has called config.create.
Submitted == \E i \in 1..Len(calls) : calls[i].command = "config.create"

\* The workflow function has ended.
WorkflowEnded == locals.workflow # None /\ pc \in {"returned", "raised"}

---------------------------------------------------------------------------
\* Properties of the bastion utility (SpecBastion).

\* ssh or connect_vault has returned or has let an exception through.
TunnelEnded == pc \in {"returned", "raised"}

\* C30: the tunnel process is started before the wrapped command runs, and
\* after the command has ended, by returning or by raising, the process is
\* terminated and waited for: when the function returns or lets the error
\* through, no tunnel process is left running.
C30_TunnelReaped ==
    /\ \A i \in 1..Len(calls) :
         calls[i] = locals.command => (i > 1 /\ calls[1] = "Popen")
    /\ TunnelEnded =>
         /\ locals.proc \in {"none", "reaped"}
         /\ locals.proc = "none" => calls = <<"Popen">>
         /\ locals.proc = "reaped" =>
              calls = <<"Popen", "sleep", locals.command, "proc.terminate", "proc.wait">>
         /\ pc = "raised" <=> last.exc # None

\* The wrapped command has raised and the tunnel was terminated and waited
\* for before the exception reached the caller.
C30_Witness ==
    /\ pc = "raised"
    /\ locals.function = "connect_vault"
    /\ locals.outcome = "Exception"
    /\ last.exc = "Exception"
    /\ locals.proc = "reaped"

---------------------------------------------------------------------------
\* Ordering edges of DNS alias records (Spec).

\* The operations that end by creating the alias record of their key.
RecordOps == {"add_ec2_instance", "add_rds_db", "add_redis_replication", "_add_record_cname"}

\* The keys of the alias records a configuration holds.
RecordKeys(s) ==
    {k \in DOMAIN s.resources :
        /\ "Type" \in DOMAIN s.resources[k]
        /\ s.resources[k].Type = "AWS::Route53::RecordSet"}

\* C28: an alias record carries DependsOn "DNSZone" exactly when a resource
\* named DNSZone was registered at the moment the record was created, and an
\* add_vpc call made later leaves the records that exist as they are, without
\* the edge: the edges of the final configuration depend on the order of calls.
C28_ZoneEdgeByOrder ==
    /\ (last.op \in RecordOps /\ last.exc = None) =>
         LET record == resources[last.args.key \o "Record"]
         IN  IF "DNSZone" \in DOMAIN pre.resources
             THEN "DependsOn" \in DOMAIN record /\ record.DependsOn = "DNSZone"
             ELSE "DependsOn" \notin DOMAIN record
    /\ last.op = "add_vpc" =>
         /\ "DNSZone" \in DOMAIN resources
         /\ \A k \in RecordKeys(pre) \ {last.args.key, "DNSZone"} :
              /\ k \in RecordKeys(self)
              /\ DOMAIN resources[k] = DOMAIN pre.resources[k]

\* add_vpc was called after add_rds_db: the zone is registered and the record
\* made before it has no edge to it.
C28_Witness ==
    /\ last.op = "add_vpc"
    /\ "DNSZone" \notin DOMAIN pre.resources
    /\ "DNSZone" \in DOMAIN resources
    /\ "DBRecord" \in RecordKeys(self)
    /\ "DependsOn" \notin DOMAIN resources["DBRecord"]

---------------------------------------------------------------------------
\* Properties of the scenario-varying values (SpecSizing).

\* A Python value seen with its type: the str "1" and the int 1 are not the
\* same value.
py_str(v) == [type |-> "str", repr |-> v]

py_int(n) == [type |-> "int", repr |-> ToString(n)]

\* The replica count falls through to the operation's default, the int 1.
CountDefaulted(var, env) ==
    /\ var.dict
    /\ Get(var.d, env, None) = None
    /\ "default" \notin DOMAIN var.d

\* What get_scenario(clusters, 1) returns, with its type: the entry of the
\* mapping (a str here) or the default (an int).
ResolvedCount(var, env) ==
    IF CountDefaulted(var, env)
    THEN py_int(1)
    ELSE py_str(get_scenario(var, "1", env))

\* The instance type in the resource is the value get_scenario returns, in
\* all five operations, the four that resolve it inline included.
SizedInstanceTypes ==
    LET key == last.args.key
        type_ == last.args.type_
    IN  /\ last.op = "add_ec2_instance" =>
               resources[key].Properties.InstanceType
                   = get_scenario(type_, "t2.micro", scenario)
        /\ last.op = "add_rds_db" =>
               resources[key].Properties.DBInstanceClass
                   = get_scenario(type_, "db.t2.micro", scenario)
        /\ last.op = "add_redis_cluster" =>
               resources[key].Properties.CacheNodeType
                   = get_scenario(type_, "cache.t2.micro", scenario)
        /\ last.op = "add_redis_replication" =>
               resources[key].Properties.CacheNodeType
                   = get_scenario(type_, "cache.m3.medium", scenario)
        /\ last.op = "add_autoscale_group" =>
               resources[key \o "Configuration"].Properties.InstanceType
                   = get_scenario(type_, "t2.micro", scenario)

\* C25 as amended: every operation that takes a scenario-varying value puts
\* into the resource the value get_scenario(value, operation default)
\* returns under the current selector: the instance type as it is, the
\* replica count converted by int(), min and max converted by str().
C25_ResolvedValue ==
    /\ SizedInstanceTypes
    /\ last.op = "add_redis_replication" =>
           resources[last.args.key].Properties.NumCacheClusters
               = int(get_scenario(last.args.clusters, "1", scenario))
    /\ last.op = "add_autoscale_group" =>
           /\ resources[last.args.key].Properties.MinSize
                  = str(get_scenario(last.args.min, 1, scenario))
           /\ resources[last.args.key].Properties.MaxSize
                  = str(get_scenario(last.args.max, 1, scenario))

\* C25 as stated: the resource holds exactly the value get_scenario returns,
\* type included, for the replica count and for min and max as well.
C25_ExactValue ==
    /\ SizedInstanceTypes
    /\ last.op = "add_redis_replication" =>
           py_int(resources[last.args.key].Properties.NumCacheClusters)
               = ResolvedCount(last.args.clusters, scenario)
    /\ last.op = "add_autoscale_group" =>
           /\ py_str(resources[last.args.key].Properties.MinSize)
                  = py_int(get_scenario(last.args.min, 1, scenario))
           /\ py_str(resources[last.args.key].Properties.MaxSize)
                  = py_int(get_scenario(last.args.max, 1, scenario))

\* add_redis_replication has resolved both of its scenario values from
\* mappings: the type from the "default" entry, the count from the entry of
\* the current scenario.
C25_Witness ==
    /\ last.op = "add_redis_replication"
    /\ last.args.type_.dict
    /\ scenario \notin DOMAIN last.args.type_.d
    /\ "default" \in DOMAIN last.args.type_.d
    /\ last.args.clusters.dict
    /\ scenario \in DOMAIN last.args.clusters.d
    /\ resources[last.args.key].Properties.NumCacheClusters = 3

---------------------------------------------------------------------------
\* Properties of the references an operation generates (Spec).

\* The suffixes an operation appends to its key to name a parameter or a
\* paired resource.
KeySuffixes ==
    {"Subnet", "Domain", "Region", "AMI", "Key", "Hostname", "Port", "DBName",
     "Username", "Password", "TableName", "Cidr", "VPC", "PeerVPC",
     "SubnetGroup", "Configuration"}

\* The zone reference of the record registered under key+"Record".
RecordZone(key) ==
    {resources[key \o "Record"].Properties.HostedZoneName["Fn::Join"][2][1].Ref}

\* The key-generated names the last operation has embedded, read off the
\* resources it registered.
GeneratedNames ==
    LET key == last.args.key
        p == resources[key].Properties
    IN  CASE last.op = "add_vpc" ->
               {p.CidrBlock.Ref, p.Tags[2].Value.Ref,
                resources["DNSZone"].Properties.Name.Ref,
                resources["DNSZone"].Properties.VPCs[1].VPCRegion.Ref}
          [] last.op = "add_subnet" ->
               {p.CidrBlock.Ref, p.Tags[2].Value.Ref}
          [] last.op = "add_ec2_instance" ->
               {p.ImageId.Ref, p.KeyName.Ref, p.Tags[2].Value.Ref}
                   \cup RecordZone(key)
          [] last.op = "add_rds_db" ->
               {p.DBInstanceIdentifier.Ref, p.MasterUsername.Ref,
                p.MasterUserPassword.Ref, p.DBSubnetGroupName.Ref, p.DBName.Ref,
                p.Port.Ref,
                resources[key \o "SubnetGroup"].Properties.DBSubnetGroupDescription.Ref}
                   \cup RecordZone(key)
          [] last.op = "add_redis_replication" ->
               {p.CacheSubnetGroupName.Ref, p.ReplicationGroupDescription.Ref,
                resources[key].DependsOn,
                resources[key \o "SubnetGroup"].Properties.Description.Ref}
                   \cup RecordZone(key)
          [] last.op = "add_route_table_route" ->
               {p.DestinationCidrBlock.Ref}
          [] last.op = "add_autoscale_group" ->
               {p.LaunchConfigurationName.Ref, p.Tags[2].Value.Ref,
                resources[key \o "Configuration"].Properties.ImageId.Ref,
                resources[key \o "Configuration"].Properties.KeyName.Ref}
          [] last.op = "add_security_group" ->
               {p.Tags[2].Value["Fn::Join"][2][2].Ref}
          [] last.op = "add_dynamo_table" ->
               {p.TableName.Ref}
          [] last.op = "add_vpc_peering" ->
               {p.VpcId.Ref, p.PeerVpcId.Ref}
          [] last.op = "_add_record_cname" ->
               RecordZone(key)
          [] OTHER -> {}

\* C22: after a builder operation has completed, every reference it
\* generated from its key (key plus a suffix, or vpc+"Domain") names a key of
\* parameters or of resources.
C22_GeneratedNamesExist ==
    (pc = "build" /\ last.exc = None /\ "key" \in DOMAIN last.args) =>
        /\ GeneratedNames \subseteq
               {last.args.key \o x : x \in KeySuffixes} \cup {"VPCDomain"}
        /\ GeneratedNames \subseteq DOMAIN parameters \cup DOMAIN resources

\* add_rds_db has completed on a configuration that declared none of the
\* names it generates, and has embedded six of them besides the zone.
C22_Witness ==
    /\ pc = "build"
    /\ last.op = "add_rds_db"
    /\ last.exc = None
    /\ GeneratedNames \cap (DOMAIN pre.parameters \cup DOMAIN pre.resources) = {}
    /\ Cardinality(GeneratedNames) = 7

---------------------------------------------------------------------------
\* Properties of the deployment scripts (SpecDeploy).

\* The ordering edge of a resource, if it has one.
DependsOnOf(r) == IF "DependsOn" \in DOMAIN r THEN {r.DependsOn} ELSE {}

\* The names a resource of the deployment scripts refers to by Ref, by
\* Fn::GetAtt and by DependsOn.
ResourceNames(k) ==
    LET r == resources[k]
        p == r.Properties
    IN  CASE r.Type = "AWS::EC2::Subnet" ->
               {p.VpcId.Ref, p.CidrBlock.Ref, p.Tags[1].Value.Ref, p.Tags[2].Value.Ref}
          [] r.Type = "AWS::EC2::Instance" ->
               {p.ImageId.Ref, p.KeyName.Ref, p.Tags[1].Value.Ref, p.Tags[2].Value.Ref,
                p.NetworkInterfaces[1].SubnetId.Ref}
                   \cup {p.NetworkInterfaces[1].GroupSet[i].Ref :
                            i \in 1..Len(p.NetworkInterfaces[1].GroupSet)}
                   \cup (IF k = "Endpoint"
                         THEN {p.UserData["Fn::Base64"]["Fn::Join"][2][4]["Fn::GetAtt"][1]}
                         ELSE {})
                   \cup DependsOnOf(r)
          [] r.Type = "AWS::RDS::DBInstance" ->
               {p.DBInstanceIdentifier.Ref, p.MasterUsername.Ref,
                p.MasterUserPassword.Ref, p.DBSubnetGroupName.Ref, p.DBName.Ref,
                p.Port.Ref}
                   \cup {p.VPCSecurityGroups[i].Ref : i \in 1..Len(p.VPCSecurityGroups)}
          [] r.Type = "AWS::RDS::DBSubnetGroup" ->
               {p.DBSubnetGroupDescription.Ref}
                   \cup {p.SubnetIds[i].Ref : i \in 1..Len(p.SubnetIds)}
          [] r.Type = "AWS::Route53::RecordSet" ->
               {p.HostedZoneName["Fn::Join"][2][1].Ref,
                p.ResourceRecords[1]["Fn::GetAtt"][1]}
                   \cup DependsOnOf(r)
          [] r.Type = "AWS::EC2::SecurityGroup" ->
               {p.VpcId.Ref, p.Tags[1].Value.Ref,
                p.Tags[2].Value["Fn::Join"][2][2].Ref}

\* C23: in the Configuration create_config returns, every reference embedded
\* in a resource names one existing resource key or parameter key, or
\* AWS::StackName.
C23_ReferencesResolve ==
    pc = "returned" =>
        \A k \in DOMAIN resources :
            ResourceNames(k) \subseteq
                DOMAIN resources \cup DOMAIN parameters \cup {"AWS::StackName"}
====
